---- MODULE Spec2Model ----
(***************************************************************************)
(* Weave: the scrolling-capture-and-stitch pipeline of the content script. *)
(*                                                                         *)
(* One run of takeScreenshot (src/src/content/capture.ts) against a page   *)
(* whose geometry is drawn in Init.  JavaScript runs to completion between *)
(* awaits, so the page and the background act only while pc is at an await *)
(* point; the synchronous stretches in between are split into steps that   *)
(* nothing interleaves with.  Lengths are CSS pixels, image rows are       *)
(* device pixels; an image row carries the device-pixel row of the scroll  *)
(* target's content that it shows.                                         *)
(***************************************************************************)
EXTENDS Integers, Sequences, FiniteSets, TLC

VARIABLES
  pc,                 \* position of the content script
  settings,           \* the GET_SETTINGS response takeScreenshot holds
  page,               \* geometry of the tab and of the scroll target
  scrollHeight,       \* scrollElement.scrollHeight (live)
  scrollTop,          \* window.scrollY / scrollElement.scrollTop (live)
  maxScrollTop,       \* the largest offset the browser lets the target reach
  lazyLoads,          \* lazy-content insertions so far
  animStyles,         \* animation-disable <style> elements in document.head
  scrollbarStyles,    \* scrollbar-hide <style> elements in document.head
  overlayStyles,      \* overlay-hide <style> elements in document.head
  marked,             \* elements carrying the class __weave-temporary-hide
  elementsToRestore,  \* hideOverlayElements' closure variable
  markedBefore,       \* history: the marker-class carriers when it was last called
  idle,               \* phase of the pending waitForIdle promise
  settled,            \* history: a settle wait has completed since the last scroll
  dom,                \* the document as getScrollableElement sees it
  scrollElement,      \* what getScrollableElement returned
  viewportHeight,     \* captureScrollingPage locals ...
  originalScrollTop,
  pageHeight,         \* preparePageForCapture's parameter
  finalPageHeight,
  y,
  lastScrollTop,
  currentScrollTop,
  captures,
  canvas,             \* the stitching canvas: [exists, rows]
  currentHeight,
  drawIndex,
  completion,         \* how the capture function completes: return or throw
  dispatched,         \* output actions performed by takeScreenshot
  outbox,             \* SCREENSHOT_DATA messages sent and not yet handled
  clipboardWrites,    \* navigator.clipboard.write calls
  alerts,             \* alert() calls of the content script, by message key
  screenshotUrl,      \* chrome.storage.local's screenshotUrl
  viewerTabs,         \* viewer tabs the background has created
  downloads,          \* chrome.downloads.download calls
  handled,            \* how each SCREENSHOT_DATA handler run ended
  requests,           \* the messages the background listener has been run for
  viewers,            \* the viewer documents loaded so far
  offscreen,          \* the service worker's offscreen-document bookkeeping
  parked,             \* a second session's own state while the first one runs
  inFlight,           \* CAPTURE_VISIBLE_TAB requests awaiting a response
  scrollLog,          \* history: every offset passed to scrollTo, in order
  captureReqs,        \* history: CAPTURE_VISIBLE_TAB requests sent
  cleanupCalls,       \* history: calls of the closure preparePageForCapture returned
  hideCalls,          \* history: calls of hideOverlayElements
  idleWaits,          \* history: waitForIdle promises resolved
  drawn,              \* history: the drawImage calls, [dy, sy, h]
  failure,            \* history: the capture request that failed, [segment, outcome]
  initialScrollTop,   \* history: the scroll offset when the script was injected
  path,               \* history: which capture path ran
  loopExit            \* history: how the capture loop ended

vars == <<pc, settings, page, scrollHeight, scrollTop, maxScrollTop, lazyLoads,
          animStyles,
          scrollbarStyles, overlayStyles, marked, elementsToRestore,
          markedBefore, idle, settled,
          dom, scrollElement, viewportHeight, originalScrollTop, pageHeight,
          finalPageHeight, y, lastScrollTop, currentScrollTop, captures,
          canvas, currentHeight, drawIndex, completion, dispatched, outbox,
          clipboardWrites, alerts, screenshotUrl, viewerTabs, downloads,
          handled, requests, viewers, offscreen, parked,
          inFlight,
          scrollLog, captureReqs, cleanupCalls, hideCalls, idleWaits, drawn,
          failure, initialScrollTop, path, loopExit>>

(***************************************************************************)
(* Bounds of the model.                                                    *)
(***************************************************************************)
MaxHeight == 5        \* largest scrollHeight drawn
MaxViewport == 2      \* largest viewport height drawn
MaxOriginal == 1      \* largest scroll offset the page starts at
MaxDpr == 2           \* largest device pixel ratio
MaxWidth == 2         \* window.innerWidth; clientWidth ranges over 1..MaxWidth
MaxSlack == 1         \* how far short of scrollHeight - viewport scrolling may stop
MaxLazyLoads == 1     \* lazy insertions during settling
MaxLog == 12          \* scroll requests recorded before the settle loop is cut
MaxContent == 3       \* largest scrollHeight of an element the resolver is given
ResolverWidth == 5    \* window.innerWidth of the documents the resolver is given

Min(a, b) == IF a < b THEN a ELSE b
Max(a, b) == IF a > b THEN a ELSE b

RECURSIVE SumHeights(_)
SumHeights(s) == IF s = <<>> THEN 0 ELSE s[1].h + SumHeights(Tail(s))

(***************************************************************************)
(* The page.                                                               *)
(***************************************************************************)
WindowPages ==
  { [isWindowScrolling |-> TRUE, innerHeight |-> h, innerWidth |-> MaxWidth,
     clientHeight |-> h, clientWidth |-> MaxWidth, dpr |-> d] :
      h \in 0..MaxViewport, d \in 1..MaxDpr }

ElementPages ==
  { [isWindowScrolling |-> FALSE, innerHeight |-> ih, innerWidth |-> MaxWidth,
     clientHeight |-> ch, clientWidth |-> cw, dpr |-> d] :
      ih \in 1..MaxViewport, ch \in 0..MaxViewport, cw \in 1..MaxWidth,
      d \in 1..MaxDpr }

(***************************************************************************)
(* The document's elements, as getScrollableElement sees them: a record    *)
(* [innerWidth, scrollingElement, all], all being the elements in document *)
(* order, each with its scroll metrics and computed style.                 *)
(***************************************************************************)
Element(id, sh, ch, cw, ov, disp, vis) ==
  [id |-> id, scrollHeight |-> sh, clientHeight |-> ch, clientWidth |-> cw,
   overflowY |-> ov, display |-> disp, visibility |-> vis]

ElementById(d, id) ==
  LET i == CHOOSE j \in 1..Len(d.all) : d.all[j].id = id IN d.all[i]

\* page.ts 59-60: document.scrollingElement || document.documentElement
DocScroller(d) ==
  ElementById(d, IF d.scrollingElement = "null" THEN "html"
                 ELSE d.scrollingElement)

\* page.ts 71-79: the test an element other than html and body has to pass
IsCandidate(el) ==
  /\ ~(el.id = "html" \/ el.id = "body")
  /\ el.display # "none"
  /\ el.visibility # "hidden"
  /\ el.scrollHeight > el.clientHeight
  /\ (el.overflowY = "scroll" \/ el.overflowY = "auto")

\* page.ts 62-82: the document scroller first, then document order
Candidates(d) ==
  (IF DocScroller(d).scrollHeight > DocScroller(d).clientHeight
     THEN <<DocScroller(d)>> ELSE <<>>)
  \o SelectSeq(d.all, IsCandidate)

\* page.ts 86: el.clientWidth > window.innerWidth * 0.4
IsWide(d, el) == 5 * el.clientWidth > 2 * d.innerWidth

\* page.ts 85-87
WideCandidates(d) == SelectSeq(Candidates(d), LAMBDA el : IsWide(d, el))

\* the candidates left unfiltered
FinalCandidatesUnfiltered(d) == Candidates(d)

\* the document scroller standing in when no candidate is wide
FinalCandidatesRootFallback(d) ==
  IF Len(WideCandidates(d)) > 0 THEN WideCandidates(d) ELSE <<>>

\* page.ts 90-91
FinalCandidates(d) ==
  IF Len(WideCandidates(d)) > 0 THEN WideCandidates(d) ELSE Candidates(d)

\* page.ts 102-103
Score(candidate) ==
  (candidate.scrollHeight - candidate.clientHeight) * candidate.clientWidth

\* the loop with score >= maxScore: the last-seen candidate wins a tie
RECURSIVE BestCandidateLastOnTies(_, _, _, _)
BestCandidateLastOnTies(finalCandidates, i, bestCandidate, maxScore) ==
  IF i > Len(finalCandidates) THEN bestCandidate
  ELSE IF Score(finalCandidates[i]) >= maxScore
         THEN BestCandidateLastOnTies(finalCandidates, i + 1,
                finalCandidates[i], Score(finalCandidates[i]))
         ELSE BestCandidateLastOnTies(finalCandidates, i + 1,
                bestCandidate, maxScore)

\* page.ts 101-108: the loop, from its i-th iteration on
RECURSIVE BestCandidate(_, _, _, _)
BestCandidate(finalCandidates, i, bestCandidate, maxScore) ==
  IF i > Len(finalCandidates) THEN bestCandidate
  ELSE IF Score(finalCandidates[i]) > maxScore
         THEN BestCandidate(finalCandidates, i + 1,
                finalCandidates[i], Score(finalCandidates[i]))
         ELSE BestCandidate(finalCandidates, i + 1, bestCandidate, maxScore)

\* page.ts 58-111
ScrollableElement(d) ==
  IF Len(FinalCandidates(d)) = 0 THEN DocScroller(d)
  ELSE BestCandidate(FinalCandidates(d), 1, FinalCandidates(d)[1], 0)

\* The document of a page drawn in Init: the root, the body, and the inner
\* scroll container when the page has one.
PageDom(p, sh) ==
  LET rootHeight == IF p.isWindowScrolling THEN sh ELSE p.innerHeight
  IN [innerWidth |-> p.innerWidth,
      scrollingElement |-> "html",
      all |-> <<Element("html", rootHeight, p.innerHeight, p.innerWidth,
                        "visible", "block", "visible"),
                Element("body", rootHeight, rootHeight, p.innerWidth,
                        "visible", "block", "visible")>>
              \o (IF p.isWindowScrolling THEN <<>>
                  ELSE <<Element("main", sh, p.clientHeight, p.clientWidth,
                                 "auto", "block", "visible")>>)]

\* capture.ts 57-59
IsWindowScrolling(el) == el.id = "html" \/ el.id = "body"

\* spec.md section 8: scrollHeight = 2500, viewportHeight = 1000
ExamplePage ==
  [isWindowScrolling |-> TRUE, innerHeight |-> 1000, innerWidth |-> 1400,
   clientHeight |-> 1000, clientWidth |-> 1400, dpr |-> 1]
ExampleInitial == [page |-> ExamplePage, scrollHeight |-> 2500, slack |-> 0]

\* The pages a session can start on: the scroll target whose geometry is
\* drawn is the element getScrollableElement finds in the page's document.
InitialPages ==
  { ip \in { [page |-> p, scrollHeight |-> h, slack |-> s] :
               p \in { q \in WindowPages \cup ElementPages :
                         q.clientHeight <= q.innerHeight },
               h \in 0..MaxHeight, s \in 0..MaxSlack } :
      IsWindowScrolling(ScrollableElement(PageDom(ip.page, ip.scrollHeight)))
        = ip.page.isWindowScrolling }
  \cup { ExampleInitial }

\* capture.ts 61-63
ViewportOf(p) == IF p.isWindowScrolling THEN p.innerHeight ELSE p.clientHeight
\* capture.ts 156
CssWidthOf(p) == IF p.isWindowScrolling THEN p.innerWidth ELSE p.clientWidth

\* The browser clamps a requested offset into [0, maxScrollTop].
ScrollClamp(yy) == Max(0, Min(yy, maxScrollTop))

(***************************************************************************)
(* The document's elements, as hideOverlayElements sees them.              *)
(***************************************************************************)
Elements ==
  {"header", "toolbar", "article", "ghost", "offscreen", "empty",
   "straddle", "above", "below", "flat", "hairline", "popup", "collapsed"}

Rect(top, height, width) ==
  [top |-> top, bottom |-> top + height, width |-> width, height |-> height]

\* getComputedStyle(e).position / .visibility and e.getBoundingClientRect()
Dom ==
  [e \in Elements |->
     CASE e = "header"    -> [position |-> "fixed",  top |-> 0, bottom |-> 1,
                              width |-> 1, height |-> 1, visibility |-> "visible"]
       [] e = "toolbar"   -> [position |-> "sticky", top |-> 0, bottom |-> 1,
                              width |-> 1, height |-> 1, visibility |-> "visible"]
       [] e = "article"   -> [position |-> "static", top |-> 0, bottom |-> 1,
                              width |-> 1, height |-> 1, visibility |-> "visible"]
       [] e = "ghost"     -> [position |-> "fixed",  top |-> 0, bottom |-> 1,
                              width |-> 1, height |-> 1, visibility |-> "hidden"]
       [] e = "offscreen" -> [position |-> "fixed",  top |-> -2, bottom |-> -1,
                              width |-> 1, height |-> 1, visibility |-> "visible"]
       [] e = "empty"     -> [position |-> "sticky", top |-> 0, bottom |-> 0,
                              width |-> 1, height |-> 0, visibility |-> "visible"]
       \* reaches into the viewport from above it
       [] e = "straddle"  -> [position |-> "fixed", visibility |-> "visible"]
                               @@ Rect(-1, 2, 1)
       \* ends exactly at the viewport's top edge
       [] e = "above"     -> [position |-> "fixed", visibility |-> "visible"]
                               @@ Rect(-1, 1, 1)
       \* starts exactly at the viewport's bottom edge
       [] e = "below"     -> [position |-> "sticky", visibility |-> "visible"]
                               @@ Rect(page.innerHeight, 1, 1)
       \* inside the viewport, of height 0
       [] e = "flat"      -> [position |-> "fixed", visibility |-> "visible"]
                               @@ Rect(page.innerHeight - 1, 0, 1)
       \* inside the viewport, of width 0
       [] e = "hairline"  -> [position |-> "fixed", visibility |-> "visible"]
                               @@ Rect(0, 1, 0)
       \* positioned, but neither fixed nor sticky
       [] e = "popup"     -> [position |-> "absolute", visibility |-> "visible"]
                               @@ Rect(0, 1, 1)
       [] e = "collapsed" -> [position |-> "sticky", visibility |-> "collapse"]
                               @@ Rect(0, 1, 1)]

\* the overlay test without its look at the computed visibility
OverlayElementsIgnoringVisibility ==
  { e \in Elements :
      /\ Dom[e].position \in {"fixed", "sticky"}
      /\ Dom[e].height > 0
      /\ Dom[e].width > 0
      /\ Dom[e].bottom > 0
      /\ Dom[e].top < page.innerHeight }

\* page.ts 21-40: the elements hideOverlayElements marks
OverlayElements ==
  { e \in Elements :
      /\ Dom[e].position \in {"fixed", "sticky"}
      /\ Dom[e].height > 0
      /\ Dom[e].width > 0
      /\ Dom[e].bottom > 0
      /\ Dom[e].top < page.innerHeight
      /\ Dom[e].visibility # "hidden" }

(***************************************************************************)
(* Values.                                                                 *)
(***************************************************************************)
NoSettings == [scrollingEnabled |-> FALSE, defaultAction |-> "unset"]
\* what the background's catch sends: {error: message}; both fields undefined
ErrorSettings == [scrollingEnabled |-> FALSE, defaultAction |-> "undefined"]
SettingsValues ==
  { [scrollingEnabled |-> s, defaultAction |-> a] :
      s \in BOOLEAN, a \in {"open", "download", "copy"} }

NoCompletion == [kind |-> "none"]
Throw(name, message) == [kind |-> "throw", name |-> name, message |-> message]
Return(data) == [kind |-> "return", data |-> data]
NoFailure == [segment |-> 0, outcome |-> "none"]
\* ts/background.ts 4: no creation promise, no offscreen document, no caller
NoOffscreen ==
  [creatingOffscreenDocument |-> 0, promises |-> <<>>, exists |-> FALSE,
   callers |-> <<>>, startedWhileExists |-> 0]

\* chrome.storage.local holds no screenshotUrl
NoScreenshot == [kind |-> "none"]

NoCanvas == [exists |-> FALSE, rows |-> <<>>]
Outside == 0 - 1    \* an image row showing something other than the scroll target
Blank == 0 - 2    \* a canvas row nothing was drawn on

\* What chrome.tabs.captureVisibleTab photographs: the whole tab viewport.
Screen ==
  [scrollTop |-> scrollTop, hidden |-> marked,
   scrollbarsHidden |-> scrollbarStyles > 0]
ImageHeight == page.innerHeight * page.dpr
ImageWidth == page.innerWidth * page.dpr
ImageRow(img, r) ==
  IF r < ViewportOf(page) * page.dpr THEN img.scrollTop * page.dpr + r
  ELSE Outside

\* The ways a sendMessage request ends: a response with data, a response
\* {error} (Chrome's "Tabs cannot be edited right now" among them), a
\* response without data, or a rejection (comms sendMessage 13-26).
CaptureOutcomes ==
  {"data", "error", "tabsLocked", "empty", "portClosed", "lastError"}

\* comms sendMessage 19-25 and capture.ts 103-105, 135-137, 209-213
CaptureError(o, fallback) ==
  CASE o = "portClosed" ->
         Throw("WEAVE_PORT_CLOSED",
               "Message port closed, likely due to page navigation.")
    [] o = "lastError" -> Throw("Error", "chrome.runtime.lastError.message")
    [] o = "error" -> Throw("Error", "response.error")
    [] o = "tabsLocked" ->
         Throw("Error", "Tabs cannot be edited right now")
    [] OTHER -> Throw("Error", fallback)

\* content/index.ts 9-11: what a session holds before its script has run
FreshSession ==
  [pc |-> "start", settings |-> NoSettings, elementsToRestore |-> {},
   markedBefore |-> {}, idle |-> "none", scrollElement |-> "none",
   viewportHeight |-> 0, originalScrollTop |-> 0, pageHeight |-> 0,
   finalPageHeight |-> 0, y |-> 0, lastScrollTop |-> 0,
   currentScrollTop |-> 0, captures |-> <<>>, canvas |-> NoCanvas,
   currentHeight |-> 0, drawIndex |-> 0, completion |-> NoCompletion,
   inFlight |-> 0, scrollLog |-> <<>>, captureReqs |-> 0, cleanupCalls |-> 0,
   hideCalls |-> 0, idleWaits |-> 0, drawn |-> <<>>, failure |-> NoFailure,
   path |-> "none", loopExit |-> "none"]

(***************************************************************************)
(* Initial state: the content script has just been injected.               *)
(***************************************************************************)
\* nothing of the script has run yet
Untouched ==
  /\ lazyLoads = 0
  /\ animStyles = 0 /\ scrollbarStyles = 0 /\ overlayStyles = 0
  /\ marked = {} /\ elementsToRestore = {} /\ markedBefore = {}
  /\ idle = "none" /\ settled = TRUE
  /\ scrollElement = "none"
  /\ viewportHeight = 0 /\ originalScrollTop = 0 /\ pageHeight = 0
  /\ finalPageHeight = 0 /\ y = 0 /\ lastScrollTop = 0
  /\ currentScrollTop = 0
  /\ captures = <<>>
  /\ canvas = NoCanvas /\ currentHeight = 0 /\ drawIndex = 0
  /\ completion = NoCompletion
  /\ dispatched = <<>> /\ outbox = <<>>
  /\ clipboardWrites = 0 /\ alerts = <<>>
  /\ screenshotUrl = NoScreenshot /\ viewerTabs = 0 /\ downloads = 0
  /\ handled = <<>>
  /\ requests = <<>>
  /\ viewers = <<>>
  /\ offscreen = NoOffscreen
  /\ parked = FreshSession
  /\ inFlight = 0
  /\ scrollLog = <<>> /\ captureReqs = 0 /\ cleanupCalls = 0
  /\ hideCalls = 0 /\ idleWaits = 0 /\ drawn = <<>>
  /\ failure = NoFailure
  /\ initialScrollTop = scrollTop
  /\ loopExit = "none"

Init ==
  /\ \E ip \in InitialPages :
       /\ page = ip.page
       /\ dom = PageDom(ip.page, ip.scrollHeight)
       /\ scrollHeight = ip.scrollHeight
       /\ maxScrollTop =
            Max(0, ip.scrollHeight - ViewportOf(ip.page) - ip.slack)
       /\ scrollTop \in
            0..Min(MaxOriginal,
                   Max(0, ip.scrollHeight - ViewportOf(ip.page) - ip.slack))
  /\ pc = "start"
  /\ settings = NoSettings
  /\ path = "none"
  /\ Untouched

(***************************************************************************)
(* Calls that several steps make.                                          *)
(***************************************************************************)
\* capture.ts 68-74: window.scrollTo(0, y) or scrollElement.scrollTop = y
scrollTo(yy) ==
  /\ scrollTop' = ScrollClamp(yy)
  /\ scrollLog' = Append(scrollLog, yy)
  /\ settled' = FALSE

\* utils waitForIdle: the promise is created and its timer armed
waitForIdle == idle' = "timer"

\* the awaited waitForIdle promise has resolved and the caller goes on
resume == idle' = "none"

\* page.ts 145-147: the closure preparePageForCapture returns
cleanupPage ==
  /\ animStyles' = animStyles - 1
  /\ cleanupCalls' = cleanupCalls + 1

\* hideOverlayElements keeping only the fixed elements in its restore list
hideOverlayElementsForgetsSticky ==
  /\ overlayStyles' = overlayStyles + 1
  /\ marked' = marked \cup OverlayElements
  /\ elementsToRestore' =
       { e \in OverlayElements : Dom[e].position = "fixed" }
  /\ markedBefore' = marked
  /\ hideCalls' = hideCalls + 1

\* page.ts 9-40: hideOverlayElements up to its return
hideOverlayElements ==
  /\ overlayStyles' = overlayStyles + 1
  /\ marked' = marked \cup OverlayElements
  /\ elementsToRestore' = OverlayElements
  /\ markedBefore' = marked
  /\ hideCalls' = hideCalls + 1

\* restoreVisibility removing the injected rule but leaving the marker class
restoreVisibilityStyleOnly ==
  /\ marked' = marked
  /\ overlayStyles' = IF overlayStyles > 0 THEN overlayStyles - 1 ELSE 0

\* page.ts 42-49: the closure hideOverlayElements returns
restoreVisibility ==
  /\ marked' = marked \ elementsToRestore
  /\ overlayStyles' = IF overlayStyles > 0 THEN overlayStyles - 1 ELSE 0

\* capture.ts 31-39: withHiddenScrollbars injects its style and runs the task,
\* which sends CAPTURE_VISIBLE_TAB
sendCaptureRequest ==
  /\ scrollbarStyles' = scrollbarStyles + 1
  /\ inFlight' = inFlight + 1
  /\ captureReqs' = captureReqs + 1

\* capture.ts 40-44: the task settled, withHiddenScrollbars' finally runs
receiveCaptureResponse ==
  /\ inFlight' = inFlight - 1
  /\ scrollbarStyles' = IF scrollbarStyles > 0 THEN scrollbarStyles - 1 ELSE 0

(***************************************************************************)
(* The page and the browser, acting while the script awaits.               *)
(***************************************************************************)
\* utils waitForIdle: the setTimeout callback runs and asks for a frame
TimerFires ==
  /\ idle = "timer"
  /\ idle' = "raf1"
  /\ UNCHANGED <<pc, settings, page, scrollHeight, scrollTop, maxScrollTop,
               lazyLoads, animStyles, scrollbarStyles, overlayStyles, marked,
               elementsToRestore, markedBefore, settled, dom, scrollElement,
               viewportHeight, originalScrollTop, pageHeight,
               finalPageHeight, y, lastScrollTop, currentScrollTop, captures,
               canvas, currentHeight, drawIndex, completion, dispatched,
               outbox, clipboardWrites, alerts, screenshotUrl, viewerTabs,
               downloads, handled, requests, viewers, offscreen, parked,
               inFlight, scrollLog, captureReqs, cleanupCalls, hideCalls,
               idleWaits, drawn, failure, initialScrollTop, path, loopExit>>

\* utils waitForIdle: the first animation-frame callback asks for another
FirstFrame ==
  /\ idle = "raf1"
  /\ idle' = "raf2"
  /\ UNCHANGED <<pc, settings, page, scrollHeight, scrollTop, maxScrollTop,
               lazyLoads, animStyles, scrollbarStyles, overlayStyles, marked,
               elementsToRestore, markedBefore, settled, dom, scrollElement,
               viewportHeight, originalScrollTop, pageHeight,
               finalPageHeight, y, lastScrollTop, currentScrollTop, captures,
               canvas, currentHeight, drawIndex, completion, dispatched,
               outbox, clipboardWrites, alerts, screenshotUrl, viewerTabs,
               downloads, handled, requests, viewers, offscreen, parked,
               inFlight, scrollLog, captureReqs, cleanupCalls, hideCalls,
               idleWaits, drawn, failure, initialScrollTop, path, loopExit>>

\* utils waitForIdle: the second animation-frame callback resolves the promise
SecondFrame ==
  /\ idle = "raf2"
  /\ idle' = "resolved"
  /\ idleWaits' = idleWaits + 1
  /\ settled' = TRUE
  /\ UNCHANGED <<pc, settings, page, scrollHeight, scrollTop, maxScrollTop,
               lazyLoads, animStyles, scrollbarStyles, overlayStyles, marked,
               elementsToRestore, markedBefore, dom, scrollElement,
               viewportHeight, originalScrollTop, pageHeight,
               finalPageHeight, y, lastScrollTop, currentScrollTop, captures,
               canvas, currentHeight, drawIndex, completion, dispatched,
               outbox, clipboardWrites, alerts, screenshotUrl, viewerTabs,
               downloads, handled, requests, viewers, offscreen, parked,
               inFlight, scrollLog, captureReqs, cleanupCalls, hideCalls,
               drawn, failure, initialScrollTop, path, loopExit>>

\* Lazy content mounts while the settle pass scrolls: scrollHeight grows.
LazyLoad ==
  /\ pc \in {"prepare_wait", "prepare_reset_wait"}
  /\ lazyLoads < MaxLazyLoads
  /\ scrollHeight < MaxHeight
  /\ scrollHeight' = scrollHeight + 1
  /\ maxScrollTop' = IF scrollHeight + 1 > ViewportOf(page) + maxScrollTop
                       THEN maxScrollTop + 1 ELSE maxScrollTop
  /\ lazyLoads' = lazyLoads + 1
  /\ UNCHANGED <<pc, settings, page, scrollTop, animStyles, scrollbarStyles,
               overlayStyles, marked, elementsToRestore, markedBefore, idle,
               settled, dom, scrollElement, viewportHeight,
               originalScrollTop, pageHeight, finalPageHeight, y,
               lastScrollTop, currentScrollTop, captures, canvas,
               currentHeight, drawIndex, completion, dispatched, outbox,
               clipboardWrites, alerts, screenshotUrl, viewerTabs, downloads,
               handled, requests, viewers, offscreen, parked, inFlight,
               scrollLog, captureReqs, cleanupCalls, hideCalls, idleWaits,
               drawn, failure, initialScrollTop, path, loopExit>>

(***************************************************************************)
(* takeScreenshot, capture.ts 222-229.                                     *)
(***************************************************************************)
takeScreenshot ==
  /\ pc = "start"
  /\ pc' = "await_settings"
  /\ UNCHANGED <<settings, page, scrollHeight, scrollTop, maxScrollTop,
               lazyLoads, animStyles, scrollbarStyles, overlayStyles, marked,
               elementsToRestore, markedBefore, idle, settled, dom,
               scrollElement, viewportHeight, originalScrollTop, pageHeight,
               finalPageHeight, y, lastScrollTop, currentScrollTop, captures,
               canvas, currentHeight, drawIndex, completion, dispatched,
               outbox, clipboardWrites, alerts, screenshotUrl, viewerTabs,
               downloads, handled, requests, viewers, offscreen, parked,
               inFlight, scrollLog, captureReqs, cleanupCalls, hideCalls,
               idleWaits, drawn, failure, initialScrollTop, path, loopExit>>

SettingsResponse(s) ==
  /\ pc = "await_settings"
  /\ settings' = s
  /\ IF s.scrollingEnabled
       THEN pc' = "getScrollableElement" /\ path' = "scrolling"
       ELSE pc' = "captureVisiblePage" /\ path' = "visible"
  /\ UNCHANGED <<page, scrollHeight, scrollTop, maxScrollTop, lazyLoads,
               animStyles, scrollbarStyles, overlayStyles, marked,
               elementsToRestore, markedBefore, idle, settled, dom,
               scrollElement, viewportHeight, originalScrollTop, pageHeight,
               finalPageHeight, y, lastScrollTop, currentScrollTop, captures,
               canvas, currentHeight, drawIndex, completion, dispatched,
               outbox, clipboardWrites, alerts, screenshotUrl, viewerTabs,
               downloads, handled, requests, viewers, offscreen, parked,
               inFlight, scrollLog, captureReqs, cleanupCalls, hideCalls,
               idleWaits, drawn, failure, initialScrollTop, loopExit>>

\* comms sendMessage 13-26: chrome.runtime.lastError rejects the promise
SettingsRejected(o) ==
  /\ pc = "await_settings"
  /\ completion' = CaptureError(o, "")
  /\ pc' = "rejected"
  /\ UNCHANGED <<settings, page, scrollHeight, scrollTop, maxScrollTop,
               lazyLoads, animStyles, scrollbarStyles, overlayStyles, marked,
               elementsToRestore, markedBefore, idle, settled, dom,
               scrollElement, viewportHeight, originalScrollTop, pageHeight,
               finalPageHeight, y, lastScrollTop, currentScrollTop, captures,
               canvas, currentHeight, drawIndex, dispatched, outbox,
               clipboardWrites, alerts, screenshotUrl, viewerTabs, downloads,
               handled, requests, viewers, offscreen, parked, inFlight,
               scrollLog, captureReqs, cleanupCalls, hideCalls, idleWaits,
               drawn, failure, initialScrollTop, path, loopExit>>

\* page.ts 58-111, called at capture.ts 228
getScrollableElement ==
  /\ pc = "getScrollableElement"
  /\ scrollElement' = ScrollableElement(dom).id
  /\ pc' = "captureScrollingPage"
  /\ UNCHANGED <<settings, page, scrollHeight, scrollTop, maxScrollTop,
               lazyLoads, animStyles, scrollbarStyles, overlayStyles, marked,
               elementsToRestore, markedBefore, idle, settled, dom,
               viewportHeight, originalScrollTop, pageHeight,
               finalPageHeight, y, lastScrollTop, currentScrollTop, captures,
               canvas, currentHeight, drawIndex, completion, dispatched,
               outbox, clipboardWrites, alerts, screenshotUrl, viewerTabs,
               downloads, handled, requests, viewers, offscreen, parked,
               inFlight, scrollLog, captureReqs, cleanupCalls, hideCalls,
               idleWaits, drawn, failure, initialScrollTop, path, loopExit>>

(***************************************************************************)
(* captureScrollingPage, capture.ts 54-196, with preparePageForCapture,    *)
(* page.ts 121-148.                                                        *)
(***************************************************************************)
\* capture.ts 57-82 and page.ts 126-135
captureScrollingPage ==
  /\ pc = "captureScrollingPage"
  /\ viewportHeight' = ViewportOf(page)
  /\ originalScrollTop' = scrollTop
  /\ pageHeight' = scrollHeight
  /\ animStyles' = animStyles + 1
  /\ y' = 0
  /\ pc' = "prepare_loop"
  /\ UNCHANGED <<settings, page, scrollHeight, scrollTop, maxScrollTop,
               lazyLoads, scrollbarStyles, overlayStyles, marked,
               elementsToRestore, markedBefore, idle, settled, dom,
               scrollElement, finalPageHeight, lastScrollTop,
               currentScrollTop, captures, canvas, currentHeight, drawIndex,
               completion, dispatched, outbox, clipboardWrites, alerts,
               screenshotUrl, viewerTabs, downloads, handled, requests,
               viewers, offscreen, parked, inFlight, scrollLog, captureReqs,
               cleanupCalls, hideCalls, idleWaits, drawn, failure,
               initialScrollTop, path, loopExit>>

\* the settle pass returning from wherever its walk ended
preparePageLoopNoReset ==
  /\ pc = "prepare_loop"
  /\ IF y < pageHeight
       THEN /\ Len(scrollLog) < MaxLog
            /\ scrollTo(y)
            /\ pc' = "prepare_wait"
       ELSE /\ UNCHANGED <<scrollTop, scrollLog, settled>>
            /\ pc' = "prepare_reset_wait"
  /\ waitForIdle
  /\ UNCHANGED <<settings, page, scrollHeight, maxScrollTop, lazyLoads,
               animStyles, scrollbarStyles, overlayStyles, marked,
               elementsToRestore, markedBefore, dom, scrollElement,
               viewportHeight, originalScrollTop, pageHeight,
               finalPageHeight, y, lastScrollTop, currentScrollTop, captures,
               canvas, currentHeight, drawIndex, completion, dispatched,
               outbox, clipboardWrites, alerts, screenshotUrl, viewerTabs,
               downloads, handled, requests, viewers, offscreen, parked,
               inFlight, captureReqs, cleanupCalls, hideCalls, idleWaits,
               drawn, failure, initialScrollTop, path, loopExit>>

\* page.ts 137-139 and 142-143
preparePageLoop ==
  /\ pc = "prepare_loop"
  /\ IF y < pageHeight
       THEN /\ Len(scrollLog) < MaxLog
            /\ scrollTo(y)
            /\ pc' = "prepare_wait"
       ELSE /\ scrollTo(0)
            /\ pc' = "prepare_reset_wait"
  /\ waitForIdle
  /\ UNCHANGED <<settings, page, scrollHeight, maxScrollTop, lazyLoads,
               animStyles, scrollbarStyles, overlayStyles, marked,
               elementsToRestore, markedBefore, dom, scrollElement,
               viewportHeight, originalScrollTop, pageHeight,
               finalPageHeight, y, lastScrollTop, currentScrollTop, captures,
               canvas, currentHeight, drawIndex, completion, dispatched,
               outbox, clipboardWrites, alerts, screenshotUrl, viewerTabs,
               downloads, handled, requests, viewers, offscreen, parked,
               inFlight, captureReqs, cleanupCalls, hideCalls, idleWaits,
               drawn, failure, initialScrollTop, path, loopExit>>

\* page.ts 137: y += viewportHeight
preparePageStep ==
  /\ pc = "prepare_wait"
  /\ idle = "resolved"
  /\ resume
  /\ y' = y + viewportHeight
  /\ pc' = "prepare_loop"
  /\ UNCHANGED <<settings, page, scrollHeight, scrollTop, maxScrollTop,
               lazyLoads, animStyles, scrollbarStyles, overlayStyles, marked,
               elementsToRestore, markedBefore, settled, dom, scrollElement,
               viewportHeight, originalScrollTop, pageHeight,
               finalPageHeight, lastScrollTop, currentScrollTop, captures,
               canvas, currentHeight, drawIndex, completion, dispatched,
               outbox, clipboardWrites, alerts, screenshotUrl, viewerTabs,
               downloads, handled, requests, viewers, offscreen, parked,
               inFlight, scrollLog, captureReqs, cleanupCalls, hideCalls,
               idleWaits, drawn, failure, initialScrollTop, path, loopExit>>

\* the height read before settling used as the authoritative height
preparePageReturnStaleHeight ==
  /\ pc = "prepare_reset_wait"
  /\ idle = "resolved"
  /\ resume
  /\ finalPageHeight' = pageHeight
  /\ pc' = "check_height"
  /\ UNCHANGED <<settings, page, scrollHeight, scrollTop, maxScrollTop,
               lazyLoads, animStyles, scrollbarStyles, overlayStyles, marked,
               elementsToRestore, markedBefore, settled, dom, scrollElement,
               viewportHeight, originalScrollTop, pageHeight, y,
               lastScrollTop, currentScrollTop, captures, canvas,
               currentHeight, drawIndex, completion, dispatched, outbox,
               clipboardWrites, alerts, screenshotUrl, viewerTabs, downloads,
               handled, requests, viewers, offscreen, parked, inFlight,
               scrollLog, captureReqs, cleanupCalls, hideCalls, idleWaits,
               drawn, failure, initialScrollTop, path, loopExit>>

\* page.ts 145 and capture.ts 85
preparePageReturn ==
  /\ pc = "prepare_reset_wait"
  /\ idle = "resolved"
  /\ resume
  /\ finalPageHeight' = scrollHeight
  /\ pc' = "check_height"
  /\ UNCHANGED <<settings, page, scrollHeight, scrollTop, maxScrollTop,
               lazyLoads, animStyles, scrollbarStyles, overlayStyles, marked,
               elementsToRestore, markedBefore, settled, dom, scrollElement,
               viewportHeight, originalScrollTop, pageHeight, y,
               lastScrollTop, currentScrollTop, captures, canvas,
               currentHeight, drawIndex, completion, dispatched, outbox,
               clipboardWrites, alerts, screenshotUrl, viewerTabs, downloads,
               handled, requests, viewers, offscreen, parked, inFlight,
               scrollLog, captureReqs, cleanupCalls, hideCalls, idleWaits,
               drawn, failure, initialScrollTop, path, loopExit>>

\* the early return without its cleanupPage() call
singleViewportNoCleanup ==
  /\ pc = "check_height"
  /\ finalPageHeight <= viewportHeight
  /\ UNCHANGED <<animStyles, cleanupCalls>>
  /\ scrollTo(originalScrollTop)
  /\ path' = "shortCircuit"
  /\ pc' = "captureVisiblePage"
  /\ UNCHANGED <<settings, page, scrollHeight, maxScrollTop, lazyLoads,
               animStyles, scrollbarStyles, overlayStyles, marked,
               elementsToRestore, markedBefore, idle, dom, scrollElement,
               viewportHeight, originalScrollTop, pageHeight,
               finalPageHeight, y, lastScrollTop, currentScrollTop, captures,
               canvas, currentHeight, drawIndex, completion, dispatched,
               outbox, clipboardWrites, alerts, screenshotUrl, viewerTabs,
               downloads, handled, requests, viewers, offscreen, parked,
               inFlight, captureReqs, cleanupCalls, hideCalls, idleWaits,
               drawn, failure, initialScrollTop, loopExit>>

\* capture.ts 89-92
singleViewport ==
  /\ pc = "check_height"
  /\ finalPageHeight <= viewportHeight
  /\ cleanupPage
  /\ scrollTo(originalScrollTop)
  /\ path' = "shortCircuit"
  /\ pc' = "captureVisiblePage"
  /\ UNCHANGED <<settings, page, scrollHeight, maxScrollTop, lazyLoads,
               scrollbarStyles, overlayStyles, marked, elementsToRestore,
               markedBefore, idle, dom, scrollElement, viewportHeight,
               originalScrollTop, pageHeight, finalPageHeight, y,
               lastScrollTop, currentScrollTop, captures, canvas,
               currentHeight, drawIndex, completion, dispatched, outbox,
               clipboardWrites, alerts, screenshotUrl, viewerTabs, downloads,
               handled, requests, viewers, offscreen, parked, inFlight,
               captureReqs, hideCalls, idleWaits, drawn, failure,
               initialScrollTop, loopExit>>

\* the segmented capture entered without the finalPageHeight test
initialCaptureUnchecked ==
  /\ pc = "check_height"
  /\ captures' = <<>>
  /\ sendCaptureRequest
  /\ pc' = "await_initial"
  /\ UNCHANGED <<settings, page, scrollHeight, scrollTop, maxScrollTop,
               lazyLoads, animStyles, overlayStyles, marked,
               elementsToRestore, markedBefore, idle, settled, dom,
               scrollElement, viewportHeight, originalScrollTop, pageHeight,
               finalPageHeight, y, lastScrollTop, currentScrollTop, canvas,
               currentHeight, drawIndex, completion, dispatched, outbox,
               clipboardWrites, alerts, screenshotUrl, viewerTabs, downloads,
               handled, requests, viewers, offscreen, parked, scrollLog,
               cleanupCalls, hideCalls, idleWaits, drawn, failure,
               initialScrollTop, path, loopExit>>

\* the initial capture sent without awaiting its response
initialCaptureNotAwaited ==
  /\ pc = "check_height"
  /\ ~(finalPageHeight <= viewportHeight)
  /\ captures' = <<>>
  /\ sendCaptureRequest
  /\ lastScrollTop' = scrollTop
  /\ y' = viewportHeight
  /\ pc' = "capture_loop"
  /\ UNCHANGED <<settings, page, scrollHeight, scrollTop, maxScrollTop,
               lazyLoads, animStyles, overlayStyles, marked,
               elementsToRestore, markedBefore, idle, settled, dom,
               scrollElement, viewportHeight, originalScrollTop, pageHeight,
               finalPageHeight, currentScrollTop, canvas, currentHeight,
               drawIndex, completion, dispatched, outbox, clipboardWrites,
               alerts, screenshotUrl, viewerTabs, downloads, handled,
               requests, viewers, offscreen, parked, scrollLog, cleanupCalls,
               hideCalls, idleWaits, drawn, failure, initialScrollTop, path,
               loopExit>>

\* capture.ts 95-102
initialCapture ==
  /\ pc = "check_height"
  /\ ~(finalPageHeight <= viewportHeight)
  /\ captures' = <<>>
  /\ sendCaptureRequest
  /\ pc' = "await_initial"
  /\ UNCHANGED <<settings, page, scrollHeight, scrollTop, maxScrollTop,
               lazyLoads, animStyles, overlayStyles, marked,
               elementsToRestore, markedBefore, idle, settled, dom,
               scrollElement, viewportHeight, originalScrollTop, pageHeight,
               finalPageHeight, y, lastScrollTop, currentScrollTop, canvas,
               currentHeight, drawIndex, completion, dispatched, outbox,
               clipboardWrites, alerts, screenshotUrl, viewerTabs, downloads,
               handled, requests, viewers, offscreen, parked, scrollLog,
               cleanupCalls, hideCalls, idleWaits, drawn, failure,
               initialScrollTop, path, loopExit>>

\* capture.ts 103-110
initialCaptureResponse(o) ==
  /\ pc = "await_initial"
  /\ receiveCaptureResponse
  /\ IF o = "data"
       THEN /\ captures' = Append(captures, Screen)
            /\ lastScrollTop' = scrollTop
            /\ y' = viewportHeight
            /\ pc' = "capture_loop"
            /\ UNCHANGED <<completion, failure>>
       ELSE /\ completion' = CaptureError(o, "Initial capture failed.")
            /\ failure' = [segment |-> captureReqs, outcome |-> o]
            /\ pc' = "finally"
            /\ UNCHANGED <<captures, lastScrollTop, y>>
  /\ UNCHANGED <<settings, page, scrollHeight, scrollTop, maxScrollTop,
               lazyLoads, animStyles, overlayStyles, marked,
               elementsToRestore, markedBefore, idle, settled, dom,
               scrollElement, viewportHeight, originalScrollTop, pageHeight,
               finalPageHeight, currentScrollTop, canvas, currentHeight,
               drawIndex, dispatched, outbox, clipboardWrites, alerts,
               screenshotUrl, viewerTabs, downloads, handled, requests,
               viewers, offscreen, parked, scrollLog, captureReqs,
               cleanupCalls, hideCalls, idleWaits, drawn, initialScrollTop,
               path, loopExit>>

\* the loop bound tested one viewport early
captureLoopStopsEarly ==
  /\ pc = "capture_loop"
  /\ IF y + viewportHeight < finalPageHeight
       THEN /\ scrollTo(y)
            /\ waitForIdle
            /\ pc' = "scroll_wait"
            /\ UNCHANGED loopExit
       ELSE /\ loopExit' = "bound"
            /\ pc' = "stitch"
            /\ UNCHANGED <<scrollTop, scrollLog, settled, idle>>
  /\ UNCHANGED <<settings, page, scrollHeight, maxScrollTop, lazyLoads,
               animStyles, scrollbarStyles, overlayStyles, marked,
               elementsToRestore, markedBefore, dom, scrollElement,
               viewportHeight, originalScrollTop, pageHeight,
               finalPageHeight, y, lastScrollTop, currentScrollTop, captures,
               canvas, currentHeight, drawIndex, completion, dispatched,
               outbox, clipboardWrites, alerts, screenshotUrl, viewerTabs,
               downloads, handled, requests, viewers, offscreen, parked,
               inFlight, captureReqs, cleanupCalls, hideCalls, idleWaits,
               drawn, failure, initialScrollTop, path>>

\* the loop reading the offset right after its scroll request
captureLoopNoWait ==
  /\ pc = "capture_loop"
  /\ IF y < finalPageHeight
       THEN /\ scrollTo(y)
            /\ idle' = "resolved"
            /\ pc' = "scroll_wait"
            /\ UNCHANGED loopExit
       ELSE /\ loopExit' = "bound"
            /\ pc' = "stitch"
            /\ UNCHANGED <<scrollTop, scrollLog, settled, idle>>
  /\ UNCHANGED <<settings, page, scrollHeight, maxScrollTop, lazyLoads,
               animStyles, scrollbarStyles, overlayStyles, marked,
               elementsToRestore, markedBefore, dom, scrollElement,
               viewportHeight, originalScrollTop, pageHeight,
               finalPageHeight, y, lastScrollTop, currentScrollTop, captures,
               canvas, currentHeight, drawIndex, completion, dispatched,
               outbox, clipboardWrites, alerts, screenshotUrl, viewerTabs,
               downloads, handled, requests, viewers, offscreen, parked,
               inFlight, captureReqs, cleanupCalls, hideCalls, idleWaits,
               drawn, failure, initialScrollTop, path>>

\* capture.ts 113-115
captureLoop ==
  /\ pc = "capture_loop"
  /\ IF y < finalPageHeight
       THEN /\ scrollTo(y)
            /\ waitForIdle
            /\ pc' = "scroll_wait"
            /\ UNCHANGED loopExit
       ELSE /\ loopExit' = "bound"
            /\ pc' = "stitch"
            /\ UNCHANGED <<scrollTop, scrollLog, settled, idle>>
  /\ UNCHANGED <<settings, page, scrollHeight, maxScrollTop, lazyLoads,
               animStyles, scrollbarStyles, overlayStyles, marked,
               elementsToRestore, markedBefore, dom, scrollElement,
               viewportHeight, originalScrollTop, pageHeight,
               finalPageHeight, y, lastScrollTop, currentScrollTop, captures,
               canvas, currentHeight, drawIndex, completion, dispatched,
               outbox, clipboardWrites, alerts, screenshotUrl, viewerTabs,
               downloads, handled, requests, viewers, offscreen, parked,
               inFlight, captureReqs, cleanupCalls, hideCalls, idleWaits,
               drawn, failure, initialScrollTop, path>>

\* capture.ts 117-123: the scroll made no progress
reachedBottom ==
  /\ pc = "scroll_wait"
  /\ idle = "resolved"
  /\ resume
  /\ currentScrollTop' = scrollTop
  /\ scrollTop = lastScrollTop
  /\ loopExit' = "stalled"
  /\ pc' = "stitch"
  /\ UNCHANGED <<settings, page, scrollHeight, scrollTop, maxScrollTop,
               lazyLoads, animStyles, scrollbarStyles, overlayStyles, marked,
               elementsToRestore, markedBefore, settled, dom, scrollElement,
               viewportHeight, originalScrollTop, pageHeight,
               finalPageHeight, y, lastScrollTop, captures, canvas,
               currentHeight, drawIndex, completion, dispatched, outbox,
               clipboardWrites, alerts, screenshotUrl, viewerTabs, downloads,
               handled, requests, viewers, offscreen, parked, inFlight,
               scrollLog, captureReqs, cleanupCalls, hideCalls, idleWaits,
               drawn, failure, initialScrollTop, path>>

\* the loop without its "scroll made no progress" test
hideOverlaysNoBreak ==
  /\ pc = "scroll_wait"
  /\ idle = "resolved"
  /\ currentScrollTop' = scrollTop
  /\ hideOverlayElements
  /\ waitForIdle
  /\ pc' = "hide_wait"
  /\ UNCHANGED <<settings, page, scrollHeight, scrollTop, maxScrollTop,
               lazyLoads, animStyles, scrollbarStyles, settled, dom,
               scrollElement, viewportHeight, originalScrollTop, pageHeight,
               finalPageHeight, y, lastScrollTop, captures, canvas,
               currentHeight, drawIndex, completion, dispatched, outbox,
               clipboardWrites, alerts, screenshotUrl, viewerTabs, downloads,
               handled, requests, viewers, offscreen, parked, inFlight,
               scrollLog, captureReqs, cleanupCalls, idleWaits, drawn,
               failure, initialScrollTop, path, loopExit>>

\* capture.ts 117-127
hideOverlays ==
  /\ pc = "scroll_wait"
  /\ idle = "resolved"
  /\ currentScrollTop' = scrollTop
  /\ scrollTop # lastScrollTop
  /\ hideOverlayElements
  /\ waitForIdle
  /\ pc' = "hide_wait"
  /\ UNCHANGED <<settings, page, scrollHeight, scrollTop, maxScrollTop,
               lazyLoads, animStyles, scrollbarStyles, settled, dom,
               scrollElement, viewportHeight, originalScrollTop, pageHeight,
               finalPageHeight, y, lastScrollTop, captures, canvas,
               currentHeight, drawIndex, completion, dispatched, outbox,
               clipboardWrites, alerts, screenshotUrl, viewerTabs, downloads,
               handled, requests, viewers, offscreen, parked, inFlight,
               scrollLog, captureReqs, cleanupCalls, idleWaits, drawn,
               failure, initialScrollTop, path, loopExit>>

\* capture.ts 129-133
segmentCapture ==
  /\ pc = "hide_wait"
  /\ idle = "resolved"
  /\ resume
  /\ sendCaptureRequest
  /\ pc' = "await_segment"
  /\ UNCHANGED <<settings, page, scrollHeight, scrollTop, maxScrollTop,
               lazyLoads, animStyles, overlayStyles, marked,
               elementsToRestore, markedBefore, settled, dom, scrollElement,
               viewportHeight, originalScrollTop, pageHeight,
               finalPageHeight, y, lastScrollTop, currentScrollTop, captures,
               canvas, currentHeight, drawIndex, completion, dispatched,
               outbox, clipboardWrites, alerts, screenshotUrl, viewerTabs,
               downloads, handled, requests, viewers, offscreen, parked,
               scrollLog, cleanupCalls, hideCalls, idleWaits, drawn, failure,
               initialScrollTop, path, loopExit>>

\* the segment step forgetting lastScrollTop = currentScrollTop
segmentCaptureResponseStaleOffset(o) ==
  /\ pc = "await_segment"
  /\ receiveCaptureResponse
  /\ IF o = "data"
       THEN /\ captures' = Append(captures, Screen)
            /\ y' = y + viewportHeight
            /\ pc' = "capture_loop"
            /\ UNCHANGED <<completion, failure>>
       ELSE /\ completion' = CaptureError(o, "A capture segment failed.")
            /\ failure' = [segment |-> captureReqs, outcome |-> o]
            /\ pc' = "finally"
            /\ UNCHANGED <<captures, y>>
  /\ restoreVisibility
  /\ UNCHANGED <<settings, page, scrollHeight, scrollTop, maxScrollTop,
               lazyLoads, animStyles, elementsToRestore, markedBefore, idle,
               settled, dom, scrollElement, viewportHeight,
               originalScrollTop, pageHeight, finalPageHeight, lastScrollTop,
               currentScrollTop, canvas, currentHeight, drawIndex,
               dispatched, outbox, clipboardWrites, alerts, screenshotUrl,
               viewerTabs, downloads, handled, requests, viewers, offscreen,
               parked, scrollLog, captureReqs, cleanupCalls, hideCalls,
               idleWaits, drawn, initialScrollTop, path, loopExit>>

\* the segment step swallowing a failed capture and moving on down the page
segmentCaptureResponseKeepsGoing(o) ==
  /\ pc = "await_segment"
  /\ receiveCaptureResponse
  /\ IF o = "data"
       THEN /\ captures' = Append(captures, Screen)
            /\ lastScrollTop' = currentScrollTop
            /\ UNCHANGED <<completion, failure>>
       ELSE /\ failure' = [segment |-> captureReqs, outcome |-> o]
            /\ UNCHANGED <<captures, lastScrollTop, completion>>
  /\ y' = y + viewportHeight
  /\ pc' = "capture_loop"
  /\ restoreVisibility
  /\ UNCHANGED <<settings, page, scrollHeight, scrollTop, maxScrollTop,
               lazyLoads, animStyles, elementsToRestore, markedBefore, idle,
               settled, dom, scrollElement, viewportHeight,
               originalScrollTop, pageHeight, finalPageHeight,
               currentScrollTop, canvas, currentHeight, drawIndex,
               completion, dispatched, outbox, clipboardWrites, alerts,
               screenshotUrl, viewerTabs, downloads, handled, requests,
               viewers, offscreen, parked, scrollLog, captureReqs,
               cleanupCalls, hideCalls, idleWaits, drawn, initialScrollTop,
               path, loopExit>>

\* the segment step restoring the overlays after the push instead of in a
\* finally block
segmentCaptureResponseRestoresOnSuccess(o) ==
  /\ pc = "await_segment"
  /\ receiveCaptureResponse
  /\ IF o = "data"
       THEN /\ captures' = Append(captures, Screen)
            /\ lastScrollTop' = currentScrollTop
            /\ y' = y + viewportHeight
            /\ pc' = "capture_loop"
            /\ restoreVisibility
            /\ UNCHANGED <<completion, failure>>
       ELSE /\ completion' = CaptureError(o, "A capture segment failed.")
            /\ failure' = [segment |-> captureReqs, outcome |-> o]
            /\ pc' = "finally"
            /\ UNCHANGED <<captures, lastScrollTop, y, marked, overlayStyles>>
  /\ UNCHANGED <<settings, page, scrollHeight, scrollTop, maxScrollTop,
               lazyLoads, animStyles, elementsToRestore, markedBefore, idle,
               settled, dom, scrollElement, viewportHeight,
               originalScrollTop, pageHeight, finalPageHeight,
               currentScrollTop, canvas, currentHeight, drawIndex,
               dispatched, outbox, clipboardWrites, alerts, screenshotUrl,
               viewerTabs, downloads, handled, requests, viewers, offscreen,
               parked, scrollLog, captureReqs, cleanupCalls, hideCalls,
               idleWaits, drawn, initialScrollTop, path, loopExit>>

\* the segment step without its finally block: the overlays stay hidden
segmentCaptureResponseNoRestore(o) ==
  /\ pc = "await_segment"
  /\ receiveCaptureResponse
  /\ IF o = "data"
       THEN /\ captures' = Append(captures, Screen)
            /\ lastScrollTop' = currentScrollTop
            /\ y' = y + viewportHeight
            /\ pc' = "capture_loop"
            /\ UNCHANGED <<completion, failure>>
       ELSE /\ completion' = CaptureError(o, "A capture segment failed.")
            /\ failure' = [segment |-> captureReqs, outcome |-> o]
            /\ pc' = "finally"
            /\ UNCHANGED <<captures, lastScrollTop, y>>
  /\ UNCHANGED <<marked, overlayStyles>>
  /\ UNCHANGED <<settings, page, scrollHeight, scrollTop, maxScrollTop,
               lazyLoads, animStyles, overlayStyles, marked,
               elementsToRestore, markedBefore, idle, settled, dom,
               scrollElement, viewportHeight, originalScrollTop, pageHeight,
               finalPageHeight, currentScrollTop, canvas, currentHeight,
               drawIndex, dispatched, outbox, clipboardWrites, alerts,
               screenshotUrl, viewerTabs, downloads, handled, requests,
               viewers, offscreen, parked, scrollLog, captureReqs,
               cleanupCalls, hideCalls, idleWaits, drawn, initialScrollTop,
               path, loopExit>>

\* capture.ts 135-143
segmentCaptureResponse(o) ==
  /\ pc = "await_segment"
  /\ receiveCaptureResponse
  /\ IF o = "data"
       THEN /\ captures' = Append(captures, Screen)
            /\ lastScrollTop' = currentScrollTop
            /\ y' = y + viewportHeight
            /\ pc' = "capture_loop"
            /\ UNCHANGED <<completion, failure>>
       ELSE /\ completion' = CaptureError(o, "A capture segment failed.")
            /\ failure' = [segment |-> captureReqs, outcome |-> o]
            /\ pc' = "finally"
            /\ UNCHANGED <<captures, lastScrollTop, y>>
  /\ restoreVisibility
  /\ UNCHANGED <<settings, page, scrollHeight, scrollTop, maxScrollTop,
               lazyLoads, animStyles, elementsToRestore, markedBefore, idle,
               settled, dom, scrollElement, viewportHeight,
               originalScrollTop, pageHeight, finalPageHeight,
               currentScrollTop, canvas, currentHeight, drawIndex,
               dispatched, outbox, clipboardWrites, alerts, screenshotUrl,
               viewerTabs, downloads, handled, requests, viewers, offscreen,
               parked, scrollLog, captureReqs, cleanupCalls, hideCalls,
               idleWaits, drawn, initialScrollTop, path, loopExit>>

(***************************************************************************)
(* Stitching, capture.ts 146-190.                                          *)
(***************************************************************************)
\* the canvas sized from the settled scroll height
CanvasHeightFromPageHeight ==
  (finalPageHeight * ImageWidth) \div CssWidthOf(page)

\* capture.ts 158: canvas.height = actualPageHeight * scale, where
\* scale = firstImage.width / cssWidth; the canvas keeps the integer part
CanvasHeight ==
  ((lastScrollTop + viewportHeight) * ImageWidth) \div CssWidthOf(page)

\* capture.ts 163: ctx.drawImage(img, 0, currentHeight)
DrawImage(rows, img, dy) ==
  [i \in 1..Len(rows) |->
     IF i - 1 >= dy /\ i - 1 < dy + ImageHeight
       THEN ImageRow(img, i - 1 - dy)
       ELSE rows[i]]

\* capture.ts 177-187: ctx.drawImage(img, 0, sy, w, h, 0, dy, w, h); the part
\* of the source rectangle below the image draws nothing
DrawImageCropped(rows, img, sy, h, dy) ==
  [i \in 1..Len(rows) |->
     IF i - 1 >= dy /\ i - 1 < dy + Min(h, ImageHeight - sy)
       THEN ImageRow(img, sy + i - 1 - dy)
       ELSE rows[i]]

\* capture.ts 176
SourceY(remainingHeight) == Max(0, ImageHeight - remainingHeight)

\* capture.ts 147-153
stitch(ctx) ==
  /\ pc = "stitch"
  /\ canvas' = [exists |-> TRUE, rows |-> <<>>]
  /\ IF ctx
       THEN pc' = "decode_first" /\ UNCHANGED completion
       ELSE /\ completion' = Throw("Error", "Could not create canvas context.")
            /\ pc' = "finally"
  /\ UNCHANGED <<settings, page, scrollHeight, scrollTop, maxScrollTop,
               lazyLoads, animStyles, scrollbarStyles, overlayStyles, marked,
               elementsToRestore, markedBefore, idle, settled, dom,
               scrollElement, viewportHeight, originalScrollTop, pageHeight,
               finalPageHeight, y, lastScrollTop, currentScrollTop, captures,
               currentHeight, drawIndex, dispatched, outbox, clipboardWrites,
               alerts, screenshotUrl, viewerTabs, downloads, handled,
               requests, viewers, offscreen, parked, inFlight, scrollLog,
               captureReqs, cleanupCalls, hideCalls, idleWaits, drawn,
               failure, initialScrollTop, path, loopExit>>

\* capture.ts 153-160
firstImageLoaded(ok) ==
  /\ pc = "decode_first"
  /\ IF ok
       THEN /\ canvas' = [canvas EXCEPT !.rows = [i \in 1..CanvasHeight |-> Blank]]
            /\ currentHeight' = 0
            /\ drawIndex' = 1
            /\ pc' = "draw_loop"
            /\ UNCHANGED completion
       ELSE /\ completion' = Throw("Error", "Could not load image from src")
            /\ pc' = "finally"
            /\ UNCHANGED <<canvas, currentHeight, drawIndex>>
  /\ UNCHANGED <<settings, page, scrollHeight, scrollTop, maxScrollTop,
               lazyLoads, animStyles, scrollbarStyles, overlayStyles, marked,
               elementsToRestore, markedBefore, idle, settled, dom,
               scrollElement, viewportHeight, originalScrollTop, pageHeight,
               finalPageHeight, y, lastScrollTop, currentScrollTop, captures,
               dispatched, outbox, clipboardWrites, alerts, screenshotUrl,
               viewerTabs, downloads, handled, requests, viewers, offscreen,
               parked, inFlight, scrollLog, captureReqs, cleanupCalls,
               hideCalls, idleWaits, drawn, failure, initialScrollTop, path,
               loopExit>>

\* capture.ts 161-162 and 167-172: the next loadImage call
loadImage ==
  /\ pc = "draw_loop"
  /\ pc' = IF drawIndex <= Len(captures) - 1 THEN "decode_segment"
           ELSE "decode_last"
  /\ UNCHANGED <<settings, page, scrollHeight, scrollTop, maxScrollTop,
               lazyLoads, animStyles, scrollbarStyles, overlayStyles, marked,
               elementsToRestore, markedBefore, idle, settled, dom,
               scrollElement, viewportHeight, originalScrollTop, pageHeight,
               finalPageHeight, y, lastScrollTop, currentScrollTop, captures,
               canvas, currentHeight, drawIndex, completion, dispatched,
               outbox, clipboardWrites, alerts, screenshotUrl, viewerTabs,
               downloads, handled, requests, viewers, offscreen, parked,
               inFlight, scrollLog, captureReqs, cleanupCalls, hideCalls,
               idleWaits, drawn, failure, initialScrollTop, path, loopExit>>

\* the drawing loop noting a broken segment and going on to the next one
segmentImageLoadedSkipsBroken(ok) ==
  /\ pc = "decode_segment"
  /\ IF ok
       THEN /\ canvas' = [canvas EXCEPT
                 !.rows = DrawImage(canvas.rows, captures[drawIndex], currentHeight)]
            /\ drawn' = Append(drawn, [dy |-> currentHeight, sy |-> 0,
                                       h |-> ImageHeight])
            /\ currentHeight' = currentHeight + ImageHeight
            /\ UNCHANGED completion
       ELSE /\ completion' = Throw("Error", "Could not load image from src")
            /\ UNCHANGED <<canvas, drawn, currentHeight>>
  /\ drawIndex' = drawIndex + 1
  /\ pc' = "draw_loop"
  /\ UNCHANGED <<settings, page, scrollHeight, scrollTop, maxScrollTop,
               lazyLoads, animStyles, scrollbarStyles, overlayStyles, marked,
               elementsToRestore, markedBefore, idle, settled, dom,
               scrollElement, viewportHeight, originalScrollTop, pageHeight,
               finalPageHeight, y, lastScrollTop, currentScrollTop, captures,
               dispatched, outbox, clipboardWrites, alerts, screenshotUrl,
               viewerTabs, downloads, handled, requests, viewers, offscreen,
               parked, inFlight, scrollLog, captureReqs, cleanupCalls,
               hideCalls, idleWaits, failure, initialScrollTop, path,
               loopExit>>

\* capture.ts 162-164
segmentImageLoaded(ok) ==
  /\ pc = "decode_segment"
  /\ IF ok
       THEN /\ canvas' = [canvas EXCEPT
                 !.rows = DrawImage(canvas.rows, captures[drawIndex], currentHeight)]
            /\ drawn' = Append(drawn, [dy |-> currentHeight, sy |-> 0,
                                       h |-> ImageHeight])
            /\ currentHeight' = currentHeight + ImageHeight
            /\ drawIndex' = drawIndex + 1
            /\ pc' = "draw_loop"
            /\ UNCHANGED completion
       ELSE /\ completion' = Throw("Error", "Could not load image from src")
            /\ pc' = "finally"
            /\ UNCHANGED <<canvas, drawn, currentHeight, drawIndex>>
  /\ UNCHANGED <<settings, page, scrollHeight, scrollTop, maxScrollTop,
               lazyLoads, animStyles, scrollbarStyles, overlayStyles, marked,
               elementsToRestore, markedBefore, idle, settled, dom,
               scrollElement, viewportHeight, originalScrollTop, pageHeight,
               finalPageHeight, y, lastScrollTop, currentScrollTop, captures,
               dispatched, outbox, clipboardWrites, alerts, screenshotUrl,
               viewerTabs, downloads, handled, requests, viewers, offscreen,
               parked, inFlight, scrollLog, captureReqs, cleanupCalls,
               hideCalls, idleWaits, failure, initialScrollTop, path,
               loopExit>>

\* capture.ts 172-190
lastImageLoaded(ok) ==
  /\ pc = "decode_last"
  /\ pc' = "finally"
  /\ IF ok
       THEN LET remainingHeight == Len(canvas.rows) - currentHeight
                rows == IF remainingHeight > 0
                          THEN DrawImageCropped(canvas.rows,
                                 captures[Len(captures)],
                                 SourceY(remainingHeight), remainingHeight,
                                 currentHeight)
                          ELSE canvas.rows
            IN /\ canvas' = [canvas EXCEPT !.rows = rows]
               /\ drawn' = IF remainingHeight > 0
                             THEN Append(drawn,
                                    [dy |-> currentHeight,
                                     sy |-> SourceY(remainingHeight),
                                     h |-> remainingHeight])
                             ELSE drawn
               /\ completion' = Return([kind |-> "canvas", rows |-> rows])
       ELSE /\ completion' = Throw("Error", "Could not load image from src")
            /\ UNCHANGED <<canvas, drawn>>
  /\ UNCHANGED <<settings, page, scrollHeight, scrollTop, maxScrollTop,
               lazyLoads, animStyles, scrollbarStyles, overlayStyles, marked,
               elementsToRestore, markedBefore, idle, settled, dom,
               scrollElement, viewportHeight, originalScrollTop, pageHeight,
               finalPageHeight, y, lastScrollTop, currentScrollTop, captures,
               currentHeight, drawIndex, dispatched, outbox, clipboardWrites,
               alerts, screenshotUrl, viewerTabs, downloads, handled,
               requests, viewers, offscreen, parked, inFlight, scrollLog,
               captureReqs, cleanupCalls, hideCalls, idleWaits, failure,
               initialScrollTop, path, loopExit>>

\* the finally block without its scroll restoration
finallyCleanupOnly ==
  /\ pc = "finally"
  /\ cleanupPage
  /\ UNCHANGED <<scrollTop, scrollLog, settled>>
  /\ pc' = "settled"
  /\ UNCHANGED <<settings, page, scrollHeight, scrollTop, maxScrollTop,
               lazyLoads, scrollbarStyles, overlayStyles, marked,
               elementsToRestore, markedBefore, idle, settled, dom,
               scrollElement, viewportHeight, originalScrollTop, pageHeight,
               finalPageHeight, y, lastScrollTop, currentScrollTop, captures,
               canvas, currentHeight, drawIndex, completion, dispatched,
               outbox, clipboardWrites, alerts, screenshotUrl, viewerTabs,
               downloads, handled, requests, viewers, offscreen, parked,
               inFlight, scrollLog, captureReqs, hideCalls, idleWaits, drawn,
               failure, initialScrollTop, path, loopExit>>

\* capture.ts 191-195
finally ==
  /\ pc = "finally"
  /\ cleanupPage
  /\ scrollTo(originalScrollTop)
  /\ pc' = "settled"
  /\ UNCHANGED <<settings, page, scrollHeight, maxScrollTop, lazyLoads,
               scrollbarStyles, overlayStyles, marked, elementsToRestore,
               markedBefore, idle, dom, scrollElement, viewportHeight,
               originalScrollTop, pageHeight, finalPageHeight, y,
               lastScrollTop, currentScrollTop, captures, canvas,
               currentHeight, drawIndex, completion, dispatched, outbox,
               clipboardWrites, alerts, screenshotUrl, viewerTabs, downloads,
               handled, requests, viewers, offscreen, parked, inFlight,
               captureReqs, hideCalls, idleWaits, drawn, failure,
               initialScrollTop, path, loopExit>>

(***************************************************************************)
(* captureVisiblePage, capture.ts 202-215.                                 *)
(***************************************************************************)
\* captureVisiblePage without its settle wait
captureVisiblePageNoWait ==
  /\ pc = "captureVisiblePage"
  /\ idle' = "resolved"
  /\ pc' = "visible_wait"
  /\ UNCHANGED <<settings, page, scrollHeight, scrollTop, maxScrollTop,
               lazyLoads, animStyles, scrollbarStyles, overlayStyles, marked,
               elementsToRestore, markedBefore, settled, dom, scrollElement,
               viewportHeight, originalScrollTop, pageHeight,
               finalPageHeight, y, lastScrollTop, currentScrollTop, captures,
               canvas, currentHeight, drawIndex, completion, dispatched,
               outbox, clipboardWrites, alerts, screenshotUrl, viewerTabs,
               downloads, handled, requests, viewers, offscreen, parked,
               inFlight, scrollLog, captureReqs, cleanupCalls, hideCalls,
               idleWaits, drawn, failure, initialScrollTop, path, loopExit>>

\* capture.ts 203
captureVisiblePage ==
  /\ pc = "captureVisiblePage"
  /\ waitForIdle
  /\ pc' = "visible_wait"
  /\ UNCHANGED <<settings, page, scrollHeight, scrollTop, maxScrollTop,
               lazyLoads, animStyles, scrollbarStyles, overlayStyles, marked,
               elementsToRestore, markedBefore, settled, dom, scrollElement,
               viewportHeight, originalScrollTop, pageHeight,
               finalPageHeight, y, lastScrollTop, currentScrollTop, captures,
               canvas, currentHeight, drawIndex, completion, dispatched,
               outbox, clipboardWrites, alerts, screenshotUrl, viewerTabs,
               downloads, handled, requests, viewers, offscreen, parked,
               inFlight, scrollLog, captureReqs, cleanupCalls, hideCalls,
               idleWaits, drawn, failure, initialScrollTop, path, loopExit>>

\* the single capture requested outside withHiddenScrollbars
visibleCaptureBareRequest ==
  /\ pc = "visible_wait"
  /\ idle = "resolved"
  /\ resume
  /\ inFlight' = inFlight + 1
  /\ captureReqs' = captureReqs + 1
  /\ pc' = "await_visible"
  /\ UNCHANGED <<settings, page, scrollHeight, scrollTop, maxScrollTop,
               lazyLoads, animStyles, scrollbarStyles, overlayStyles, marked,
               elementsToRestore, markedBefore, settled, dom, scrollElement,
               viewportHeight, originalScrollTop, pageHeight,
               finalPageHeight, y, lastScrollTop, currentScrollTop, captures,
               canvas, currentHeight, drawIndex, completion, dispatched,
               outbox, clipboardWrites, alerts, screenshotUrl, viewerTabs,
               downloads, handled, requests, viewers, offscreen, parked,
               scrollLog, cleanupCalls, hideCalls, idleWaits, drawn, failure,
               initialScrollTop, path, loopExit>>

\* capture.ts 204-208
visibleCapture ==
  /\ pc = "visible_wait"
  /\ idle = "resolved"
  /\ resume
  /\ sendCaptureRequest
  /\ pc' = "await_visible"
  /\ UNCHANGED <<settings, page, scrollHeight, scrollTop, maxScrollTop,
               lazyLoads, animStyles, overlayStyles, marked,
               elementsToRestore, markedBefore, settled, dom, scrollElement,
               viewportHeight, originalScrollTop, pageHeight,
               finalPageHeight, y, lastScrollTop, currentScrollTop, captures,
               canvas, currentHeight, drawIndex, completion, dispatched,
               outbox, clipboardWrites, alerts, screenshotUrl, viewerTabs,
               downloads, handled, requests, viewers, offscreen, parked,
               scrollLog, cleanupCalls, hideCalls, idleWaits, drawn, failure,
               initialScrollTop, path, loopExit>>

\* capture.ts 209-214
visibleCaptureResponse(o) ==
  /\ pc = "await_visible"
  /\ receiveCaptureResponse
  /\ IF o = "data"
       THEN /\ completion' = Return([kind |-> "capture", image |-> Screen])
            /\ UNCHANGED failure
       ELSE /\ completion' =
                 CaptureError(o, "Visible capture failed without an error message.")
            /\ failure' = [segment |-> captureReqs, outcome |-> o]
  /\ pc' = "settled"
  /\ UNCHANGED <<settings, page, scrollHeight, scrollTop, maxScrollTop,
               lazyLoads, animStyles, overlayStyles, marked,
               elementsToRestore, markedBefore, idle, settled, dom,
               scrollElement, viewportHeight, originalScrollTop, pageHeight,
               finalPageHeight, y, lastScrollTop, currentScrollTop, captures,
               canvas, currentHeight, drawIndex, dispatched, outbox,
               clipboardWrites, alerts, screenshotUrl, viewerTabs, downloads,
               handled, requests, viewers, offscreen, parked, scrollLog,
               captureReqs, cleanupCalls, hideCalls, idleWaits, drawn,
               initialScrollTop, path, loopExit>>

(***************************************************************************)
(* takeScreenshot, capture.ts 227-244: the output action.                  *)
(***************************************************************************)
\* capture.ts 237-241: the SCREENSHOT_DATA message
ScreenshotData(action, data) ==
  [type |-> "SCREENSHOT_DATA", action |-> action, data |-> data]

\* the switch running before the capture function's finally block
dispatchBeforeFinally ==
  /\ pc \in {"finally", "settled"}
  /\ IF completion.kind = "throw"
       THEN pc' = "rejected" /\ UNCHANGED <<dispatched, outbox>>
       ELSE /\ dispatched' =
                 IF settings.defaultAction \in {"copy", "open", "download"}
                   THEN Append(dispatched, settings.defaultAction)
                   ELSE dispatched
            /\ outbox' =
                 IF settings.defaultAction \in {"open", "download"}
                   THEN Append(outbox, ScreenshotData(settings.defaultAction,
                                                      completion.data))
                   ELSE outbox
            /\ pc' = IF settings.defaultAction = "copy" THEN "await_copy"
                     ELSE "done"
  /\ UNCHANGED <<settings, page, scrollHeight, scrollTop, maxScrollTop,
               lazyLoads, animStyles, scrollbarStyles, overlayStyles, marked,
               elementsToRestore, markedBefore, idle, settled, dom,
               scrollElement, viewportHeight, originalScrollTop, pageHeight,
               finalPageHeight, y, lastScrollTop, currentScrollTop, captures,
               canvas, currentHeight, drawIndex, completion, clipboardWrites,
               alerts, screenshotUrl, viewerTabs, downloads, handled,
               requests, viewers, offscreen, parked, inFlight, scrollLog,
               captureReqs, cleanupCalls, hideCalls, idleWaits, drawn,
               failure, initialScrollTop, path, loopExit>>

\* capture.ts 227-243: the capture function has settled; the switch
dispatch ==
  /\ pc = "settled"
  /\ IF completion.kind = "throw"
       THEN pc' = "rejected" /\ UNCHANGED <<dispatched, outbox>>
       ELSE /\ dispatched' =
                 IF settings.defaultAction \in {"copy", "open", "download"}
                   THEN Append(dispatched, settings.defaultAction)
                   ELSE dispatched
            /\ outbox' =
                 IF settings.defaultAction \in {"open", "download"}
                   THEN Append(outbox, ScreenshotData(settings.defaultAction,
                                                      completion.data))
                   ELSE outbox
            /\ pc' = IF settings.defaultAction = "copy" THEN "await_copy"
                     ELSE "done"
  /\ UNCHANGED <<settings, page, scrollHeight, scrollTop, maxScrollTop,
               lazyLoads, animStyles, scrollbarStyles, overlayStyles, marked,
               elementsToRestore, markedBefore, idle, settled, dom,
               scrollElement, viewportHeight, originalScrollTop, pageHeight,
               finalPageHeight, y, lastScrollTop, currentScrollTop, captures,
               canvas, currentHeight, drawIndex, completion, clipboardWrites,
               alerts, screenshotUrl, viewerTabs, downloads, handled,
               requests, viewers, offscreen, parked, inFlight, scrollLog,
               captureReqs, cleanupCalls, hideCalls, idleWaits, drawn,
               failure, initialScrollTop, path, loopExit>>

\* How copyImageToClipboard's calls end: the write succeeds, the write
\* rejects, or fetch / blob fails before the write.
CopyOutcomes == {"written", "writeFailed", "fetchFailed"}

\* clipboard.ts 5-15, awaited at capture.ts 233
copyImageToClipboard(o) ==
  /\ pc = "await_copy"
  /\ clipboardWrites' = IF o = "fetchFailed" THEN clipboardWrites
                        ELSE clipboardWrites + 1
  /\ alerts' = IF o = "written" THEN alerts
               ELSE Append(alerts, "copyFailedError")
  /\ pc' = "done"
  /\ UNCHANGED <<settings, page, scrollHeight, scrollTop, maxScrollTop,
               lazyLoads, animStyles, scrollbarStyles, overlayStyles, marked,
               elementsToRestore, markedBefore, idle, settled, dom,
               scrollElement, viewportHeight, originalScrollTop, pageHeight,
               finalPageHeight, y, lastScrollTop, currentScrollTop, captures,
               canvas, currentHeight, drawIndex, completion, dispatched,
               outbox, screenshotUrl, viewerTabs, downloads, handled,
               requests, viewers, offscreen, parked, inFlight, scrollLog,
               captureReqs, cleanupCalls, hideCalls, idleWaits, drawn,
               failure, initialScrollTop, path, loopExit>>

(***************************************************************************)
(* The content entry point, content/index.ts 9-33.                         *)
(***************************************************************************)
\* index.ts 11: takeScreenshot fulfilled
entryReturns ==
  /\ pc = "done"
  /\ pc' = "ended"
  /\ UNCHANGED <<settings, page, scrollHeight, scrollTop, maxScrollTop,
               lazyLoads, animStyles, scrollbarStyles, overlayStyles, marked,
               elementsToRestore, markedBefore, idle, settled, dom,
               scrollElement, viewportHeight, originalScrollTop, pageHeight,
               finalPageHeight, y, lastScrollTop, currentScrollTop, captures,
               canvas, currentHeight, drawIndex, completion, dispatched,
               outbox, clipboardWrites, alerts, screenshotUrl, viewerTabs,
               downloads, handled, requests, viewers, offscreen, parked,
               inFlight, scrollLog, captureReqs, cleanupCalls, hideCalls,
               idleWaits, drawn, failure, initialScrollTop, path, loopExit>>

\* the catch block alerting whatever the error's name
entryCatchAlertsAlways ==
  /\ pc = "rejected"
  /\ alerts' = Append(alerts, "screenshotGenericError")
  /\ pc' = "ended"
  /\ UNCHANGED <<settings, page, scrollHeight, scrollTop, maxScrollTop,
               lazyLoads, animStyles, scrollbarStyles, overlayStyles, marked,
               elementsToRestore, markedBefore, idle, settled, dom,
               scrollElement, viewportHeight, originalScrollTop, pageHeight,
               finalPageHeight, y, lastScrollTop, currentScrollTop, captures,
               canvas, currentHeight, drawIndex, completion, dispatched,
               outbox, clipboardWrites, screenshotUrl, viewerTabs, downloads,
               handled, requests, viewers, offscreen, parked, inFlight,
               scrollLog, captureReqs, cleanupCalls, hideCalls, idleWaits,
               drawn, failure, initialScrollTop, path, loopExit>>

\* index.ts 12-32: takeScreenshot rejected with an Error
entryCatch ==
  /\ pc = "rejected"
  /\ alerts' =
       IF completion.name = "WEAVE_PORT_CLOSED" THEN alerts
       ELSE IF completion.message = "Tabs cannot be edited right now"
              THEN Append(alerts, "captureCancelledError")
              ELSE Append(alerts, "screenshotGenericError")
  /\ pc' = "ended"
  /\ UNCHANGED <<settings, page, scrollHeight, scrollTop, maxScrollTop,
               lazyLoads, animStyles, scrollbarStyles, overlayStyles, marked,
               elementsToRestore, markedBefore, idle, settled, dom,
               scrollElement, viewportHeight, originalScrollTop, pageHeight,
               finalPageHeight, y, lastScrollTop, currentScrollTop, captures,
               canvas, currentHeight, drawIndex, completion, dispatched,
               outbox, clipboardWrites, screenshotUrl, viewerTabs, downloads,
               handled, requests, viewers, offscreen, parked, inFlight,
               scrollLog, captureReqs, cleanupCalls, hideCalls, idleWaits,
               drawn, failure, initialScrollTop, path, loopExit>>

(***************************************************************************)
(* The background's SCREENSHOT_DATA handler, background/index.ts 72-83     *)
(* with downloadScreenshot, 8-18.                                          *)
(***************************************************************************)
\* How the handler's chrome calls end: all succeed, the storage call
\* rejects, or chrome.tabs.create rejects after the image was stored.
HandlerOutcomes == {"ok", "storageFailed", "tabFailed"}

\* background/index.ts 72-83 and 8-18
onScreenshotData(o) ==
  /\ outbox # <<>>
  /\ outbox' = Tail(outbox)
  /\ handled' = Append(handled, o)
  /\ IF Head(outbox).action = "open"
       THEN /\ screenshotUrl' =
                 IF o = "storageFailed" THEN screenshotUrl
                 ELSE [kind |-> "url", data |-> Head(outbox).data]
            /\ viewerTabs' = IF o = "ok" THEN viewerTabs + 1 ELSE viewerTabs
            /\ UNCHANGED downloads
       ELSE IF Head(outbox).action = "download"
              THEN /\ o # "tabFailed"
                   /\ downloads' = IF o = "ok" THEN downloads + 1
                                   ELSE downloads
                   /\ UNCHANGED <<screenshotUrl, viewerTabs>>
              ELSE UNCHANGED <<screenshotUrl, viewerTabs, downloads>>
  /\ UNCHANGED <<pc, settings, page, scrollHeight, scrollTop, maxScrollTop,
               lazyLoads, animStyles, scrollbarStyles, overlayStyles, marked,
               elementsToRestore, markedBefore, idle, settled, dom,
               scrollElement, viewportHeight, originalScrollTop, pageHeight,
               finalPageHeight, y, lastScrollTop, currentScrollTop, captures,
               canvas, currentHeight, drawIndex, completion, dispatched,
               clipboardWrites, alerts, requests, viewers, offscreen, parked,
               inFlight, scrollLog, captureReqs, cleanupCalls, hideCalls,
               idleWaits, drawn, failure, initialScrollTop, path, loopExit>>

Next ==
  \/ TimerFires
  \/ FirstFrame
  \/ SecondFrame
  \/ LazyLoad
  \/ takeScreenshot
  \/ \E s \in SettingsValues \cup {ErrorSettings} : SettingsResponse(s)
  \/ \E o \in {"portClosed", "lastError"} : SettingsRejected(o)
  \/ getScrollableElement
  \/ captureScrollingPage
  \/ preparePageLoop
  \/ preparePageStep
  \/ preparePageReturn
  \/ singleViewport
  \/ initialCapture
  \/ \E o \in CaptureOutcomes : initialCaptureResponse(o)
  \/ captureLoop
  \/ reachedBottom
  \/ hideOverlays
  \/ segmentCapture
  \/ \E o \in CaptureOutcomes : segmentCaptureResponse(o)
  \/ \E ctx \in BOOLEAN : stitch(ctx)
  \/ \E ok \in BOOLEAN : firstImageLoaded(ok)
  \/ loadImage
  \/ \E ok \in BOOLEAN : segmentImageLoaded(ok)
  \/ \E ok \in BOOLEAN : lastImageLoaded(ok)
  \/ finally
  \/ captureVisiblePage
  \/ visibleCapture
  \/ \E o \in CaptureOutcomes : visibleCaptureResponse(o)
  \/ dispatch
  \/ \E o \in CopyOutcomes : copyImageToClipboard(o)
  \/ entryReturns
  \/ entryCatch
  \/ \E o \in HandlerOutcomes : onScreenshotData(o)

Spec == Init /\ [][Next]_vars

(***************************************************************************)
(* getScrollableElement on its own, page.ts 58-111: one call on each       *)
(* document of a bounded family.  The root fills the window; two further   *)
(* elements vary in size, overflow and visibility.                         *)
(***************************************************************************)
ResolverWidths ==
  {0, (2 * ResolverWidth) \div 5, (2 * ResolverWidth) \div 5 + 1,
   ResolverWidth}

\* an element that is rendered, and one that is display:none (no box)
ResolverElements(id) ==
  { Element(id, sh, ch, cw, ov, "block", vis) :
      sh \in 1..MaxContent, ch \in {0, 2}, cw \in ResolverWidths,
      ov \in {"visible", "auto", "scroll"}, vis \in {"visible", "hidden"} }
  \cup { Element(id, 0, 0, 0, ov, "none", "visible") :
           ov \in {"visible", "auto", "scroll"} }

ResolverDoms ==
  { [innerWidth |-> ResolverWidth,
     scrollingElement |-> se,
     all |-> <<Element("html", rh, 2, ResolverWidth, "visible", "block", "visible"),
               Element("body", rh, 2, ResolverWidth, "visible", "block", "visible"),
               a, b>>] :
      se \in {"html", "body", "null"}, rh \in {2, 3},
      a \in ResolverElements("a"), b \in ResolverElements("b") }

ResolverInit ==
  /\ dom \in ResolverDoms
  /\ page = ExamplePage
  /\ scrollHeight = 0 /\ maxScrollTop = 0 /\ scrollTop = 0
  /\ pc = "getScrollableElement"
  /\ settings = [scrollingEnabled |-> TRUE, defaultAction |-> "open"]
  /\ path = "scrolling"
  /\ Untouched

ResolverNext == getScrollableElement

ResolverSpec == ResolverInit /\ [][ResolverNext]_vars

(***************************************************************************)
(* The background's message listener on its own, background/index.ts       *)
(* 44-120: each message starts one run of the async handler, which runs    *)
(* to its first await before the listener returns; runs for different      *)
(* messages interleave at their awaits.                                    *)
(***************************************************************************)
MaxRequests == 3

\* types.d.ts RuntimeMessage, and a message of no declared type
Messages ==
  { [type |-> "GET_SETTINGS", action |-> "none"],
    [type |-> "CAPTURE_VISIBLE_TAB", action |-> "none"],
    [type |-> "SCREENSHOT_DATA", action |-> "open"],
    [type |-> "SCREENSHOT_DATA", action |-> "download"],
    [type |-> "DOWNLOAD_SCREENSHOT", action |-> "none"],
    [type |-> "PING", action |-> "none"] }

\* the awaited chrome calls of each case of the switch
Awaits(m) ==
  CASE m.type = "GET_SETTINGS" -> 1
    [] m.type = "CAPTURE_VISIBLE_TAB" -> 1
    [] m.type = "SCREENSHOT_DATA" -> 2
    [] m.type = "DOWNLOAD_SCREENSHOT" -> 2
    [] OTHER -> 0

\* background/index.ts 116-118: the listener's return value
KeepsPortOpen(m) ==
  m.type = "GET_SETTINGS" \/ m.type = "CAPTURE_VISIBLE_TAB"

\* background/index.ts 58 and 66: what the case passes to sendResponse
ResultOf(m) ==
  CASE m.type = "GET_SETTINGS" -> <<"settings">>
    [] m.type = "CAPTURE_VISIBLE_TAB" -> <<"data">>
    [] OTHER -> <<>>

\* background/index.ts 44-50, 91-102 and 116-118: the listener is called
onMessage(m) ==
  /\ pc = "background"
  /\ Len(requests) < MaxRequests
  /\ requests' = Append(requests,
       [type |-> m.type, action |-> m.action,
        awaits |-> Awaits(m),
        threw |-> FALSE,
        responses |-> IF m.type \in {"GET_SETTINGS", "CAPTURE_VISIBLE_TAB",
                                     "SCREENSHOT_DATA", "DOWNLOAD_SCREENSHOT"}
                        THEN <<>> ELSE <<"error">>,
        keepOpen |-> KeepsPortOpen(m)])
  /\ UNCHANGED <<pc, settings, page, scrollHeight, scrollTop, maxScrollTop,
               lazyLoads, animStyles, scrollbarStyles, overlayStyles, marked,
               elementsToRestore, markedBefore, idle, settled, dom,
               scrollElement, viewportHeight, originalScrollTop, pageHeight,
               finalPageHeight, y, lastScrollTop, currentScrollTop, captures,
               canvas, currentHeight, drawIndex, completion, dispatched,
               outbox, clipboardWrites, alerts, screenshotUrl, viewerTabs,
               downloads, handled, viewers, offscreen, parked, inFlight,
               scrollLog, captureReqs, cleanupCalls, hideCalls, idleWaits,
               drawn, failure, initialScrollTop, path, loopExit>>

\* background/index.ts 57-59, 63-67, 72-89: an awaited call fulfils
awaitFulfils(i) ==
  /\ pc = "background"
  /\ i \in 1..Len(requests)
  /\ requests[i].awaits > 0
  /\ requests' = [requests EXCEPT
       ![i].awaits = @ - 1,
       ![i].responses = IF requests[i].awaits = 1
                          THEN @ \o ResultOf(requests[i]) ELSE @]
  /\ UNCHANGED <<pc, settings, page, scrollHeight, scrollTop, maxScrollTop,
               lazyLoads, animStyles, scrollbarStyles, overlayStyles, marked,
               elementsToRestore, markedBefore, idle, settled, dom,
               scrollElement, viewportHeight, originalScrollTop, pageHeight,
               finalPageHeight, y, lastScrollTop, currentScrollTop, captures,
               canvas, currentHeight, drawIndex, completion, dispatched,
               outbox, clipboardWrites, alerts, screenshotUrl, viewerTabs,
               downloads, handled, viewers, offscreen, parked, inFlight,
               scrollLog, captureReqs, cleanupCalls, hideCalls, idleWaits,
               drawn, failure, initialScrollTop, path, loopExit>>

\* the catch block logging the error and answering nothing
awaitRejectsUnanswered(i) ==
  /\ pc = "background"
  /\ i \in 1..Len(requests)
  /\ requests[i].awaits > 0
  /\ requests' = [requests EXCEPT ![i].awaits = 0, ![i].threw = TRUE]
  /\ UNCHANGED <<pc, settings, page, scrollHeight, scrollTop, maxScrollTop,
               lazyLoads, animStyles, scrollbarStyles, overlayStyles, marked,
               elementsToRestore, markedBefore, idle, settled, dom,
               scrollElement, viewportHeight, originalScrollTop, pageHeight,
               finalPageHeight, y, lastScrollTop, currentScrollTop, captures,
               canvas, currentHeight, drawIndex, completion, dispatched,
               outbox, clipboardWrites, alerts, screenshotUrl, viewerTabs,
               downloads, handled, viewers, offscreen, parked, inFlight,
               scrollLog, captureReqs, cleanupCalls, hideCalls, idleWaits,
               drawn, failure, initialScrollTop, path, loopExit>>

\* background/index.ts 104-112: an awaited call rejects
awaitRejects(i) ==
  /\ pc = "background"
  /\ i \in 1..Len(requests)
  /\ requests[i].awaits > 0
  /\ requests' = [requests EXCEPT
       ![i].awaits = 0,
       ![i].threw = TRUE,
       ![i].responses = Append(@, "error")]
  /\ UNCHANGED <<pc, settings, page, scrollHeight, scrollTop, maxScrollTop,
               lazyLoads, animStyles, scrollbarStyles, overlayStyles, marked,
               elementsToRestore, markedBefore, idle, settled, dom,
               scrollElement, viewportHeight, originalScrollTop, pageHeight,
               finalPageHeight, y, lastScrollTop, currentScrollTop, captures,
               canvas, currentHeight, drawIndex, completion, dispatched,
               outbox, clipboardWrites, alerts, screenshotUrl, viewerTabs,
               downloads, handled, viewers, offscreen, parked, inFlight,
               scrollLog, captureReqs, cleanupCalls, hideCalls, idleWaits,
               drawn, failure, initialScrollTop, path, loopExit>>

ListenerInit ==
  /\ pc = "background"
  /\ page = ExamplePage
  /\ dom = PageDom(ExamplePage, 0)
  /\ scrollHeight = 0 /\ maxScrollTop = 0 /\ scrollTop = 0
  /\ settings = NoSettings
  /\ path = "none"
  /\ Untouched

ListenerNext ==
  \/ \E m \in Messages : onMessage(m)
  \/ \E i \in 1..MaxRequests : awaitFulfils(i)
  \/ \E i \in 1..MaxRequests : awaitRejects(i)

ListenerSpec == ListenerInit /\ [][ListenerNext]_vars

(***************************************************************************)
(* The viewer page, viewer/index.ts 27-52, with the 'open' hand-off that   *)
(* feeds it, background/index.ts 72-83.  A chrome.storage.local call takes *)
(* effect when it is issued (calls are served in the order they are made); *)
(* the caller sees the result at its next step.                            *)
(***************************************************************************)
MaxOpens == 2
MaxViewerLoads == 3

\* the images some viewer document is displaying
Displayed ==
  { viewers[i].img : i \in { j \in 1..Len(viewers) : viewers[j].phase = "shown" } }

\* capture.ts 237-241 with defaultAction "open": the n-th capture's image
sendScreenshotData ==
  /\ pc = "viewer"
  /\ Len(handled) + Len(outbox) < MaxOpens
  /\ outbox' = Append(outbox,
                 ScreenshotData("open", Len(handled) + Len(outbox) + 1))
  /\ UNCHANGED <<pc, settings, page, scrollHeight, scrollTop, maxScrollTop,
               lazyLoads, animStyles, scrollbarStyles, overlayStyles, marked,
               elementsToRestore, markedBefore, idle, settled, dom,
               scrollElement, viewportHeight, originalScrollTop, pageHeight,
               finalPageHeight, y, lastScrollTop, currentScrollTop, captures,
               canvas, currentHeight, drawIndex, completion, dispatched,
               clipboardWrites, alerts, screenshotUrl, viewerTabs, downloads,
               handled, requests, viewers, offscreen, parked, inFlight,
               scrollLog, captureReqs, cleanupCalls, hideCalls, idleWaits,
               drawn, failure, initialScrollTop, path, loopExit>>

\* viewer/index.ts 27-46: a viewer document loads (a created tab, or a
\* reload of one) and asks for the stored image
viewerLoads ==
  /\ pc = "viewer"
  /\ viewerTabs >= 1
  /\ Len(viewers) < MaxViewerLoads
  /\ viewers' = Append(viewers,
                  [phase |-> "awaiting", got |-> screenshotUrl, img |-> 0,
                   displayedBefore |-> Displayed])
  /\ UNCHANGED <<pc, settings, page, scrollHeight, scrollTop, maxScrollTop,
               lazyLoads, animStyles, scrollbarStyles, overlayStyles, marked,
               elementsToRestore, markedBefore, idle, settled, dom,
               scrollElement, viewportHeight, originalScrollTop, pageHeight,
               finalPageHeight, y, lastScrollTop, currentScrollTop, captures,
               canvas, currentHeight, drawIndex, completion, dispatched,
               outbox, clipboardWrites, alerts, screenshotUrl, viewerTabs,
               downloads, handled, requests, offscreen, parked, inFlight,
               scrollLog, captureReqs, cleanupCalls, hideCalls, idleWaits,
               drawn, failure, initialScrollTop, path, loopExit>>

\* the handler displaying the image and leaving the key in storage
viewerShowsKeepsKey(i) ==
  /\ pc = "viewer"
  /\ i \in 1..Len(viewers)
  /\ viewers[i].phase = "awaiting"
  /\ IF viewers[i].got.kind = "url"
       THEN viewers' = [viewers EXCEPT ![i].phase = "shown",
                                       ![i].img = viewers[i].got.data]
       ELSE viewers' = [viewers EXCEPT ![i].phase = "empty"]
  /\ UNCHANGED <<pc, settings, page, scrollHeight, scrollTop, maxScrollTop,
               lazyLoads, animStyles, scrollbarStyles, overlayStyles, marked,
               elementsToRestore, markedBefore, idle, settled, dom,
               scrollElement, viewportHeight, originalScrollTop, pageHeight,
               finalPageHeight, y, lastScrollTop, currentScrollTop, captures,
               canvas, currentHeight, drawIndex, completion, dispatched,
               outbox, clipboardWrites, alerts, screenshotUrl, viewerTabs,
               downloads, handled, requests, offscreen, parked, inFlight,
               scrollLog, captureReqs, cleanupCalls, hideCalls, idleWaits,
               drawn, failure, initialScrollTop, path, loopExit>>

\* viewer/index.ts 44-52 and 89-91: storage.get has answered
viewerShows(i) ==
  /\ pc = "viewer"
  /\ i \in 1..Len(viewers)
  /\ viewers[i].phase = "awaiting"
  /\ IF viewers[i].got.kind = "url"
       THEN /\ viewers' = [viewers EXCEPT ![i].phase = "shown",
                                          ![i].img = viewers[i].got.data]
            /\ screenshotUrl' = NoScreenshot
       ELSE /\ viewers' = [viewers EXCEPT ![i].phase = "empty"]
            /\ UNCHANGED screenshotUrl
  /\ UNCHANGED <<pc, settings, page, scrollHeight, scrollTop, maxScrollTop,
               lazyLoads, animStyles, scrollbarStyles, overlayStyles, marked,
               elementsToRestore, markedBefore, idle, settled, dom,
               scrollElement, viewportHeight, originalScrollTop, pageHeight,
               finalPageHeight, y, lastScrollTop, currentScrollTop, captures,
               canvas, currentHeight, drawIndex, completion, dispatched,
               outbox, clipboardWrites, alerts, viewerTabs, downloads,
               handled, requests, offscreen, parked, inFlight, scrollLog,
               captureReqs, cleanupCalls, hideCalls, idleWaits, drawn,
               failure, initialScrollTop, path, loopExit>>

ViewerInit ==
  /\ pc = "viewer"
  /\ page = ExamplePage
  /\ dom = PageDom(ExamplePage, 0)
  /\ scrollHeight = 0 /\ maxScrollTop = 0 /\ scrollTop = 0
  /\ settings = [scrollingEnabled |-> TRUE, defaultAction |-> "open"]
  /\ path = "none"
  /\ Untouched

ViewerNext ==
  \/ sendScreenshotData
  \/ \E o \in HandlerOutcomes : onScreenshotData(o)
  \/ viewerLoads
  \/ \E i \in 1..MaxViewerLoads : viewerShows(i)

ViewerSpec == ViewerInit /\ [][ViewerNext]_vars

(***************************************************************************)
(* setupOffscreenDocument, ts/background.ts 4-40, called by concurrent     *)
(* message handlers of the service worker.  offscreen.promises holds the   *)
(* state of every promise chrome.offscreen.createDocument has returned;    *)
(* creatingOffscreenDocument is 0 for null or the index of the promise it  *)
(* refers to.  A caller runs from one await to the next without            *)
(* interruption.                                                           *)
(***************************************************************************)
MaxCallers == 3

\* ts/background.ts 24-25: a caller enters and awaits hasOffscreenDocument
setupOffscreenDocument ==
  /\ pc = "serviceWorker"
  /\ Len(offscreen.callers) < MaxCallers
  /\ offscreen' = [offscreen EXCEPT
       !.callers = Append(@, [at |-> "matchAll", has |-> FALSE, promise |-> 0])]
  /\ UNCHANGED <<pc, settings, page, scrollHeight, scrollTop, maxScrollTop,
               lazyLoads, animStyles, scrollbarStyles, overlayStyles, marked,
               elementsToRestore, markedBefore, idle, settled, dom,
               scrollElement, viewportHeight, originalScrollTop, pageHeight,
               finalPageHeight, y, lastScrollTop, currentScrollTop, captures,
               canvas, currentHeight, drawIndex, completion, dispatched,
               outbox, clipboardWrites, alerts, screenshotUrl, viewerTabs,
               downloads, handled, requests, viewers, parked, inFlight,
               scrollLog, captureReqs, cleanupCalls, hideCalls, idleWaits,
               drawn, failure, initialScrollTop, path, loopExit>>

\* ts/background.ts 11-17: clients.matchAll() answers with the clients there
\* are at that moment
hasOffscreenDocument(i) ==
  /\ pc = "serviceWorker"
  /\ i \in 1..Len(offscreen.callers)
  /\ offscreen.callers[i].at = "matchAll"
  /\ offscreen' = [offscreen EXCEPT
       !.callers[i].at = "checked",
       !.callers[i].has = offscreen.exists]
  /\ UNCHANGED <<pc, settings, page, scrollHeight, scrollTop, maxScrollTop,
               lazyLoads, animStyles, scrollbarStyles, overlayStyles, marked,
               elementsToRestore, markedBefore, idle, settled, dom,
               scrollElement, viewportHeight, originalScrollTop, pageHeight,
               finalPageHeight, y, lastScrollTop, currentScrollTop, captures,
               canvas, currentHeight, drawIndex, completion, dispatched,
               outbox, clipboardWrites, alerts, screenshotUrl, viewerTabs,
               downloads, handled, requests, viewers, parked, inFlight,
               scrollLog, captureReqs, cleanupCalls, hideCalls, idleWaits,
               drawn, failure, initialScrollTop, path, loopExit>>

\* ts/background.ts 25-37: the caller resumes with the answer
afterCheck(i) ==
  /\ pc = "serviceWorker"
  /\ i \in 1..Len(offscreen.callers)
  /\ offscreen.callers[i].at = "checked"
  /\ IF offscreen.callers[i].has
       THEN offscreen' = [offscreen EXCEPT !.callers[i].at = "returned"]
       ELSE IF offscreen.creatingOffscreenDocument # 0
         THEN offscreen' = [offscreen EXCEPT
                !.callers[i].at = "joined",
                !.callers[i].promise = offscreen.creatingOffscreenDocument]
         ELSE offscreen' = [offscreen EXCEPT
                !.promises = Append(@, "pending"),
                !.creatingOffscreenDocument = Len(offscreen.promises) + 1,
                !.startedWhileExists =
                   IF offscreen.exists THEN @ + 1 ELSE @,
                !.callers[i].at = "creating",
                !.callers[i].promise = Len(offscreen.promises) + 1]
  /\ UNCHANGED <<pc, settings, page, scrollHeight, scrollTop, maxScrollTop,
               lazyLoads, animStyles, scrollbarStyles, overlayStyles, marked,
               elementsToRestore, markedBefore, idle, settled, dom,
               scrollElement, viewportHeight, originalScrollTop, pageHeight,
               finalPageHeight, y, lastScrollTop, currentScrollTop, captures,
               canvas, currentHeight, drawIndex, completion, dispatched,
               outbox, clipboardWrites, alerts, screenshotUrl, viewerTabs,
               downloads, handled, requests, viewers, parked, inFlight,
               scrollLog, captureReqs, cleanupCalls, hideCalls, idleWaits,
               drawn, failure, initialScrollTop, path, loopExit>>

\* chrome.offscreen.createDocument settles: it rejects when a document
\* exists already, and may fail otherwise
createDocumentSettles(p, ok) ==
  /\ pc = "serviceWorker"
  /\ p \in 1..Len(offscreen.promises)
  /\ offscreen.promises[p] = "pending"
  /\ ok => ~offscreen.exists
  /\ offscreen' = [offscreen EXCEPT
       !.promises[p] = IF ok THEN "fulfilled" ELSE "rejected",
       !.exists = IF ok THEN TRUE ELSE @]
  /\ UNCHANGED <<pc, settings, page, scrollHeight, scrollTop, maxScrollTop,
               lazyLoads, animStyles, scrollbarStyles, overlayStyles, marked,
               elementsToRestore, markedBefore, idle, settled, dom,
               scrollElement, viewportHeight, originalScrollTop, pageHeight,
               finalPageHeight, y, lastScrollTop, currentScrollTop, captures,
               canvas, currentHeight, drawIndex, completion, dispatched,
               outbox, clipboardWrites, alerts, screenshotUrl, viewerTabs,
               downloads, handled, requests, viewers, parked, inFlight,
               scrollLog, captureReqs, cleanupCalls, hideCalls, idleWaits,
               drawn, failure, initialScrollTop, path, loopExit>>

\* ts/background.ts 37-38: the creator's await ends
creatorResumes(i) ==
  /\ pc = "serviceWorker"
  /\ i \in 1..Len(offscreen.callers)
  /\ offscreen.callers[i].at = "creating"
  /\ offscreen.promises[offscreen.callers[i].promise] # "pending"
  /\ IF offscreen.promises[offscreen.callers[i].promise] = "fulfilled"
       THEN offscreen' = [offscreen EXCEPT
              !.creatingOffscreenDocument = 0,
              !.callers[i].at = "returned"]
       ELSE offscreen' = [offscreen EXCEPT !.callers[i].at = "threw"]
  /\ UNCHANGED <<pc, settings, page, scrollHeight, scrollTop, maxScrollTop,
               lazyLoads, animStyles, scrollbarStyles, overlayStyles, marked,
               elementsToRestore, markedBefore, idle, settled, dom,
               scrollElement, viewportHeight, originalScrollTop, pageHeight,
               finalPageHeight, y, lastScrollTop, currentScrollTop, captures,
               canvas, currentHeight, drawIndex, completion, dispatched,
               outbox, clipboardWrites, alerts, screenshotUrl, viewerTabs,
               downloads, handled, requests, viewers, parked, inFlight,
               scrollLog, captureReqs, cleanupCalls, hideCalls, idleWaits,
               drawn, failure, initialScrollTop, path, loopExit>>

\* ts/background.ts 29-30: a joined caller's await ends
joinerResumes(i) ==
  /\ pc = "serviceWorker"
  /\ i \in 1..Len(offscreen.callers)
  /\ offscreen.callers[i].at = "joined"
  /\ offscreen.promises[offscreen.callers[i].promise] # "pending"
  /\ offscreen' = [offscreen EXCEPT
       !.callers[i].at =
          IF offscreen.promises[offscreen.callers[i].promise] = "fulfilled"
            THEN "returned" ELSE "threw"]
  /\ UNCHANGED <<pc, settings, page, scrollHeight, scrollTop, maxScrollTop,
               lazyLoads, animStyles, scrollbarStyles, overlayStyles, marked,
               elementsToRestore, markedBefore, idle, settled, dom,
               scrollElement, viewportHeight, originalScrollTop, pageHeight,
               finalPageHeight, y, lastScrollTop, currentScrollTop, captures,
               canvas, currentHeight, drawIndex, completion, dispatched,
               outbox, clipboardWrites, alerts, screenshotUrl, viewerTabs,
               downloads, handled, requests, viewers, parked, inFlight,
               scrollLog, captureReqs, cleanupCalls, hideCalls, idleWaits,
               drawn, failure, initialScrollTop, path, loopExit>>

\* ts/offscreen.ts 18-22: the offscreen document closes itself
windowClose ==
  /\ pc = "serviceWorker"
  /\ offscreen.exists
  /\ offscreen' = [offscreen EXCEPT !.exists = FALSE]
  /\ UNCHANGED <<pc, settings, page, scrollHeight, scrollTop, maxScrollTop,
               lazyLoads, animStyles, scrollbarStyles, overlayStyles, marked,
               elementsToRestore, markedBefore, idle, settled, dom,
               scrollElement, viewportHeight, originalScrollTop, pageHeight,
               finalPageHeight, y, lastScrollTop, currentScrollTop, captures,
               canvas, currentHeight, drawIndex, completion, dispatched,
               outbox, clipboardWrites, alerts, screenshotUrl, viewerTabs,
               downloads, handled, requests, viewers, parked, inFlight,
               scrollLog, captureReqs, cleanupCalls, hideCalls, idleWaits,
               drawn, failure, initialScrollTop, path, loopExit>>

OffscreenInit ==
  /\ pc = "serviceWorker"
  /\ page = ExamplePage
  /\ dom = PageDom(ExamplePage, 0)
  /\ scrollHeight = 0 /\ maxScrollTop = 0 /\ scrollTop = 0
  /\ settings = [scrollingEnabled |-> TRUE, defaultAction |-> "copy"]
  /\ path = "none"
  /\ Untouched

OffscreenNext ==
  \/ setupOffscreenDocument
  \/ \E i \in 1..MaxCallers : hasOffscreenDocument(i)
  \/ \E i \in 1..MaxCallers : afterCheck(i)
  \/ \E p \in 1..MaxCallers, ok \in BOOLEAN : createDocumentSettles(p, ok)
  \/ \E i \in 1..MaxCallers : creatorResumes(i)
  \/ \E i \in 1..MaxCallers : joinerResumes(i)
  \/ windowClose

OffscreenSpec == OffscreenInit /\ [][OffscreenNext]_vars

(***************************************************************************)
(* Two sessions in one page: a second click injects the script again       *)
(* while the first run is under way (background/index.ts 20-37 has no      *)
(* guard).  The session variables above are those of the session that is   *)
(* running; parked holds the other session's.  Control passes from one     *)
(* session to the other only while the running one is suspended at an      *)
(* await.  The page (scroll offset, styles, marker classes) is shared.     *)
(***************************************************************************)
\* the positions at which a session is suspended at an await
AwaitPoints ==
  {"start", "await_settings", "prepare_wait", "prepare_reset_wait",
   "await_initial", "scroll_wait", "hide_wait", "await_segment",
   "decode_first", "decode_segment", "decode_last"}

\* the running session is suspended and the other session's next step runs
switchSession ==
  /\ pc \in AwaitPoints \cup {"settled"}
  /\ idle # "resolved"
  /\ parked.pc # "settled"
  /\ pc' = parked.pc
  /\ settings' = parked.settings
  /\ elementsToRestore' = parked.elementsToRestore
  /\ markedBefore' = parked.markedBefore
  /\ idle' = parked.idle
  /\ scrollElement' = parked.scrollElement
  /\ viewportHeight' = parked.viewportHeight
  /\ originalScrollTop' = parked.originalScrollTop
  /\ pageHeight' = parked.pageHeight
  /\ finalPageHeight' = parked.finalPageHeight
  /\ y' = parked.y
  /\ lastScrollTop' = parked.lastScrollTop
  /\ currentScrollTop' = parked.currentScrollTop
  /\ captures' = parked.captures
  /\ canvas' = parked.canvas
  /\ currentHeight' = parked.currentHeight
  /\ drawIndex' = parked.drawIndex
  /\ completion' = parked.completion
  /\ inFlight' = parked.inFlight
  /\ scrollLog' = parked.scrollLog
  /\ captureReqs' = parked.captureReqs
  /\ cleanupCalls' = parked.cleanupCalls
  /\ hideCalls' = parked.hideCalls
  /\ idleWaits' = parked.idleWaits
  /\ drawn' = parked.drawn
  /\ failure' = parked.failure
  /\ path' = parked.path
  /\ loopExit' = parked.loopExit
  /\ parked' =
    [pc |-> pc, settings |-> settings, elementsToRestore |-> elementsToRestore,
     markedBefore |-> markedBefore, idle |-> idle,
     scrollElement |-> scrollElement, viewportHeight |-> viewportHeight,
     originalScrollTop |-> originalScrollTop, pageHeight |-> pageHeight,
     finalPageHeight |-> finalPageHeight, y |-> y,
     lastScrollTop |-> lastScrollTop, currentScrollTop |-> currentScrollTop,
     captures |-> captures, canvas |-> canvas, currentHeight |-> currentHeight,
     drawIndex |-> drawIndex, completion |-> completion, inFlight |-> inFlight,
     scrollLog |-> scrollLog, captureReqs |-> captureReqs,
     cleanupCalls |-> cleanupCalls, hideCalls |-> hideCalls,
     idleWaits |-> idleWaits, drawn |-> drawn, failure |-> failure,
     path |-> path, loopExit |-> loopExit]
  /\ UNCHANGED <<page, scrollHeight, scrollTop, maxScrollTop, lazyLoads,
               animStyles, scrollbarStyles, overlayStyles, marked, settled,
               dom, dispatched, outbox, clipboardWrites, alerts,
               screenshotUrl, viewerTabs, downloads, handled, requests,
               viewers, offscreen, initialScrollTop>>

\* a scrolling window of three viewports, at the top
SessionsPage ==
  [isWindowScrolling |-> TRUE, innerHeight |-> 1, innerWidth |-> MaxWidth,
   clientHeight |-> 1, clientWidth |-> MaxWidth, dpr |-> 1]

SessionsInit ==
  /\ page = SessionsPage
  /\ dom = PageDom(SessionsPage, 3)
  /\ scrollHeight = 3 /\ maxScrollTop = 2 /\ scrollTop = 0
  /\ pc = "start"
  /\ settings = NoSettings
  /\ path = "none"
  /\ Untouched

SessionsNext ==
  \/ switchSession
  \/ TimerFires
  \/ FirstFrame
  \/ SecondFrame
  \/ takeScreenshot
  \/ SettingsResponse([scrollingEnabled |-> TRUE, defaultAction |-> "open"])
  \/ getScrollableElement
  \/ captureScrollingPage
  \/ preparePageLoop
  \/ preparePageStep
  \/ preparePageReturn
  \/ initialCapture
  \/ initialCaptureResponse("data")
  \/ captureLoop
  \/ reachedBottom
  \/ hideOverlays
  \/ segmentCapture
  \/ segmentCaptureResponse("data")
  \/ stitch(TRUE)
  \/ firstImageLoaded(TRUE)
  \/ loadImage
  \/ segmentImageLoaded(TRUE)
  \/ lastImageLoaded(TRUE)
  \/ finally

SessionsSpec == SessionsInit /\ [][SessionsNext]_vars

(***************************************************************************)
(* Properties.                                                             *)
(***************************************************************************)
Last(s) == s[Len(s)]

\* captureScrollingPage has been entered / its promise has settled
InScrollingPath == path \in {"scrolling", "shortCircuit"}
Exited == InScrollingPath /\ pc \in {"settled", "await_copy", "done", "rejected", "ended"}
NoInjectedStyle ==
  animStyles = 0 /\ scrollbarStyles = 0 /\ overlayStyles = 0
ScrollRestored ==
  scrollLog # <<>> /\ Last(scrollLog) = originalScrollTop

\* C1: whichever segment's capture request fails (error response, response
\* without image, or rejection), when captureScrollingPage exits the last
\* scroll request is scrollTo(originalScrollTop), no injected style is left,
\* no element carries the hide marker class, and the call has rejected.
C1_CleanupOnCaptureFailure ==
  (Exited /\ failure.segment >= 1) =>
    /\ ScrollRestored
    /\ NoInjectedStyle
    /\ marked = {}
    /\ completion.kind = "throw"

\* C1's case: the third of five segments fails, on a page scrolled away from
\* the top that has overlays to hide.
C1_Witness ==
  /\ Exited
  /\ failure = [segment |-> 3, outcome |-> "error"]
  /\ viewportHeight >= 1
  /\ finalPageHeight = 5 * viewportHeight
  /\ originalScrollTop # 0
  /\ OverlayElements # {}

\* C2: on every exit of captureScrollingPage the original scroll position
\* has been requested again and no injected global style is left.
C2_CleanupOnEveryExit ==
  Exited => (ScrollRestored /\ NoInjectedStyle)

\* C2's case: an exit through a decode failure after two segments.
C2_Witness ==
  /\ Exited
  /\ completion.kind = "throw"
  /\ completion.message = "Could not load image from src"
  /\ Len(captures) = 2
  /\ originalScrollTop # 0

\* C3: the cleanup closure preparePageForCapture returned is called exactly
\* once per captureScrollingPage call: never twice, and once by the exit.
C3_CleanupExactlyOnce ==
  /\ cleanupCalls <= 1
  /\ Exited => cleanupCalls = 1

\* C3's case: the early return for a page that does not scroll.
C3_Witness ==
  /\ Exited
  /\ path = "shortCircuit"
  /\ cleanupCalls = 1

\* the stitcher returned canvas.toDataURL()
StitchReturned ==
  completion.kind = "return" /\ completion.data.kind = "canvas"

\* C4: for the N captured segments, the heights drawn by the stitcher (full
\* height for segments 1..N-1, the cropped remainingHeight for segment N)
\* add up to exactly H = (lastOffset + viewportHeight) * scale, each segment
\* is drawn where the one before it ended, and across every segment
\* boundary the page rows continue without a gap or a repeated row.
C4_DrawnHeightsSumToCanvasHeight ==
  StitchReturned =>
    LET N == Len(captures)
        D == Len(drawn) IN
    /\ D \in {N - 1, N}
    /\ \A k \in 1..(N - 1) : drawn[k].h = ImageHeight
    /\ SumHeights(drawn) = CanvasHeight
    /\ \A k \in 1..D : drawn[k].dy = SumHeights(SubSeq(drawn, 1, k - 1))
    /\ \A k \in 1..(D - 1) :
         /\ ImageRow(captures[k], ImageHeight - 1) # Outside
         /\ ImageRow(captures[k + 1], drawn[k + 1].sy)
              = ImageRow(captures[k], ImageHeight - 1) + 1

\* C5: the stitched image shows every device-pixel row of the logical page
\* in [0, lastOffset + viewportHeight) exactly once and in page order.
C5_EveryRowOnceInOrder ==
  StitchReturned =>
    canvas.rows =
      [i \in 1..((lastScrollTop + viewportHeight) * page.dpr) |-> i - 1]

\* C6: when a requested scroll advance leaves the actual offset equal to the
\* previous actual offset the capture loop stops: from then on no capture
\* request, no overlay hiding and no scroll advance is issued (the only
\* scroll left is the restoration in the finally block), and the canvas
\* height is computed from that offset.
C6_StalledScrollStopsLoop ==
  [][ /\ (pc = "scroll_wait" /\ idle = "resolved" /\ scrollTop = lastScrollTop)
           => (pc' = "stitch" /\ captureReqs' = captureReqs)
      /\ loopExit = "stalled"
           => /\ captureReqs' = captureReqs
              /\ hideCalls' = hideCalls
              /\ lastScrollTop' = lastScrollTop
              /\ lastScrollTop = currentScrollTop
              /\ scrollLog' # scrollLog
                   => (pc = "finally"
                       /\ scrollLog' = Append(scrollLog, originalScrollTop))
              /\ (pc = "decode_first" /\ pc' = "draw_loop")
                   => Len(canvas'.rows) =
                        ((currentScrollTop + viewportHeight) * ImageWidth)
                          \div CssWidthOf(page)
    ]_vars

\* C6's case: a capture of at least two segments whose loop ended on a scroll
\* that made no progress, and that went on to deliver its image.
C6_Witness ==
  /\ loopExit = "stalled"
  /\ pc = "done"
  /\ viewportHeight >= 1
  /\ Len(captures) >= 2

\* the offsets at which the segments were taken
Offsets == [i \in 1..Len(captures) |-> captures[i].scrollTop]

\* spec.md section 8: scrollHeight 2500, viewportHeight 1000, offsets beyond
\* 1500 clamped to 1500
IsExample ==
  page = ExamplePage /\ finalPageHeight = 2500 /\ maxScrollTop = 1500

\* C7 as stated: the example yields exactly 2 segments, at offsets 0 and 1500.
C7_ExampleTwoSegments ==
  (IsExample /\ loopExit # "none") => Offsets = <<0, 1500>>

\* C7 as amended: the example yields exactly 3 segments, at offsets 0, 1000
\* and 1500.
C7_ExampleThreeSegments ==
  (IsExample /\ loopExit # "none") => Offsets = <<0, 1000, 1500>>

\* C7's case: the example page captured and stitched.
C7_Witness ==
  IsExample /\ pc = "done" /\ StitchReturned /\ Len(captures) = 3

\* C8: the offsets of the captured segments are strictly increasing in
\* capture order, and stitching starts only after the loop ended because the
\* offset stopped advancing or because the next requested offset reached
\* the settled scroll height.
C8_OffsetsStrictlyIncreasing ==
  /\ \A i \in 1..(Len(captures) - 1) :
       captures[i].scrollTop < captures[i + 1].scrollTop
  /\ pc \in {"stitch", "decode_first", "draw_loop", "decode_segment",
             "decode_last"}
       => loopExit \in {"stalled", "bound"}
  /\ loopExit = "stalled" => currentScrollTop = lastScrollTop
  /\ loopExit = "bound" => y >= finalPageHeight

\* C8's case: three or more segments, the loop ended by its bound.
C8_Witness ==
  /\ StitchReturned
  /\ loopExit = "bound"
  /\ Len(captures) >= 3

\* positions before captureScrollingPage has read finalPageHeight and tested it
BeforeHeightCheck ==
  pc \in {"getScrollableElement", "captureScrollingPage", "prepare_loop",
          "prepare_wait", "prepare_reset_wait", "check_height"}

\* C9: when the scroll height read after settling is <= viewportHeight, the
\* full-page path sends exactly one capture request, after cleanupPage and
\* the scroll restoration have run, creates no canvas, draws nothing, and
\* returns the image of that one capture as it is.
C9_SingleViewportShortCircuit ==
  (InScrollingPath /\ ~BeforeHeightCheck /\ finalPageHeight <= viewportHeight)
    => /\ path = "shortCircuit"
       /\ captureReqs <= 1
       /\ hideCalls = 0
       /\ ~canvas.exists
       /\ drawn = <<>>
       /\ captureReqs = 1
            => (cleanupCalls = 1 /\ animStyles = 0 /\ ScrollRestored)
       /\ pc \in {"settled", "await_copy", "done", "rejected", "ended"} => captureReqs = 1
       /\ completion.kind = "return"
            => completion.data =
                 [kind |-> "capture",
                  image |-> [scrollTop |-> scrollTop, hidden |-> {},
                             scrollbarsHidden |-> TRUE]]

\* C9's case: a page exactly one viewport high, captured and delivered.
C9_Witness ==
  /\ path = "shortCircuit"
  /\ pc = "done"
  /\ viewportHeight >= 1
  /\ finalPageHeight = viewportHeight
  /\ completion.kind = "return"

\* C10: with settings.scrollingEnabled false, takeScreenshot resolves no
\* scroll target, requests no scroll, injects no animation-disable style,
\* hides no overlay, leaves the scroll position as it was, and sends exactly
\* one capture request, after exactly one settle wait.
C10_ScrollingDisabled ==
  (path # "none" /\ ~settings.scrollingEnabled)
    => /\ scrollElement = "none"
       /\ scrollLog = <<>>
       /\ scrollTop = initialScrollTop
       /\ animStyles = 0 /\ cleanupCalls = 0
       /\ hideCalls = 0 /\ overlayStyles = 0 /\ marked = {}
       /\ captureReqs <= 1
       /\ captureReqs = 1 => idleWaits = 1
       /\ pc \in {"settled", "await_copy", "done", "rejected", "ended"} => captureReqs = 1

\* C10's case: a viewport capture delivered from a page scrolled away from
\* the top.
C10_Witness ==
  /\ path = "visible"
  /\ ~settings.scrollingEnabled
  /\ pc = "done"
  /\ captureReqs = 1
  /\ initialScrollTop # 0

\* C11: once a capture request has failed (error response, response without
\* image data, or rejection), on the first segment or a later one, the
\* pipeline is aborting: the call throws, no canvas is built, nothing is
\* dispatched, and from then on no capture request is sent (so no retry), no
\* overlay pass runs, and the only scroll request still made is the
\* restoration scrollTo(originalScrollTop) of the finally block.
C11_CaptureFailureAborts ==
  /\ [](failure.outcome # "none" =>
          /\ completion.kind = "throw"
          /\ pc \in {"finally", "settled", "rejected", "ended"}
          /\ inFlight = 0
          /\ captureReqs = failure.segment
          /\ ~canvas.exists
          /\ drawn = <<>>
          /\ dispatched = <<>>)
  /\ [][failure.outcome # "none" =>
          /\ captureReqs' = captureReqs
          /\ hideCalls' = hideCalls
          /\ dispatched' = dispatched
          /\ scrollLog' # scrollLog =>
               /\ pc = "finally"
               /\ scrollLog' = Append(scrollLog, originalScrollTop)]_vars

\* C11's case: the second segment's response carries no image after the
\* first was captured; the run has ended in a rejection.
C11_Witness ==
  /\ pc = "rejected"
  /\ path = "scrolling"
  /\ failure = [segment |-> 2, outcome |-> "empty"]
  /\ Len(captures) = 1
  /\ finalPageHeight > 2 * viewportHeight
  /\ viewportHeight >= 1

\* loadImage has rejected (capture.ts 19-20)
DecodeFailed ==
  /\ completion.kind = "throw"
  /\ completion.message = "Could not load image from src"

\* C12: once decoding a segment has failed, stitching is over: the call
\* throws, nothing is decoded or drawn afterwards, no canvas data is
\* returned or dispatched, and when the call has exited the injected styles
\* are gone, cleanup ran once and the original scroll offset was requested.
C12_DecodeFailureAborts ==
  /\ [](DecodeFailed =>
          /\ pc \in {"finally", "settled", "rejected", "ended"}
          /\ dispatched = <<>>
          /\ (pc # "finally" =>
                /\ NoInjectedStyle
                /\ marked = {}
                /\ cleanupCalls = 1
                /\ ScrollRestored))
  /\ [][DecodeFailed =>
          /\ DecodeFailed'
          /\ drawn' = drawn
          /\ canvas' = canvas
          /\ drawIndex' = drawIndex]_vars

\* C12's case: of three segments the first was drawn and the second failed
\* to decode; the run has ended in a rejection.
C12_Witness ==
  /\ pc = "rejected"
  /\ DecodeFailed
  /\ Len(captures) = 3
  /\ Len(drawn) = 1
  /\ drawIndex = 2
  /\ originalScrollTop # 0

\* the Overlay Suppressor's effects are present in the document
OverlaysHidden == marked # {} \/ overlayStyles > 0

\* C13: overlays are hidden only from a hideOverlayElements call, through
\* the one settle wait that follows it, to the completion of the one capture
\* request sent after that wait; the step that receives that request's
\* outcome (image, error response or rejection) restores them.  So nothing
\* is hidden when a scroll request is made or after the session has exited.
\* (One settle wait: by the time the request is sent, every scroll request
\* and every hide so far has been followed by exactly one resolved wait.)
C13_OverlaysHiddenOnlyAroundCapture ==
  /\ [](OverlaysHidden =>
          /\ pc \in {"hide_wait", "await_segment"}
          /\ overlayStyles = 1
          /\ marked = elementsToRestore
          /\ (pc = "hide_wait" => inFlight = 0)
          /\ (pc = "await_segment" => inFlight = 1))
  /\ [][/\ (pc = "hide_wait" /\ pc' # pc) =>
             (pc' = "await_segment" /\ captureReqs' = captureReqs + 1
                /\ idleWaits = hideCalls + Len(scrollLog))
        /\ (pc = "await_segment" /\ pc' # pc) => ~OverlaysHidden'
        /\ scrollLog' # scrollLog => ~OverlaysHidden
        /\ hideCalls' # hideCalls => (OverlaysHidden' /\ pc' = "hide_wait")]_vars

\* C13's case: overlays were hidden for the third segment, whose request
\* was rejected because the port closed; they are visible again at exit.
C13_Witness ==
  /\ pc = "rejected"
  /\ failure = [segment |-> 3, outcome |-> "portClosed"]
  /\ hideCalls = 2
  /\ elementsToRestore # {}
  /\ ~OverlaysHidden

\* C14: in a full-page capture hideOverlayElements has been called once for
\* every capture request issued, and every captured segment, the one at
\* offset 0 included, was photographed with the overlays in the viewport
\* hidden.
C14_HideOncePerSegment ==
  (path = "scrolling" /\ pc \in {"await_initial", "await_segment", "stitch"}) =>
    /\ hideCalls = captureReqs
    /\ \A i \in 1..Len(captures) : captures[i].hidden = OverlayElements

\* C15: in every hide/restore cycle of a session, however many there are,
\* the step that runs the restore closure leaves the marker class on exactly
\* the elements that carried it before the matching hideOverlayElements call
\* and leaves no hide rule in the document; the hide itself had injected one.
C15_RestoreUndoesHide ==
  [][/\ hideCalls' # hideCalls => overlayStyles' = overlayStyles + 1
     /\ (pc = "await_segment" /\ pc' # pc) =>
          (marked' = markedBefore /\ overlayStyles' = 0)]_vars

\* C15's case: the third hide/restore cycle of a session has completed on a
\* page with overlays in the viewport.
C15_Witness ==
  /\ pc = "capture_loop"
  /\ hideCalls = 3
  /\ elementsToRestore # {}
  /\ marked = markedBefore
  /\ overlayStyles = 0

\* spec.md 4.3: what makes an element an overlay to hide
IsOverlay(e) ==
  /\ Dom[e].position = "fixed" \/ Dom[e].position = "sticky"
  /\ Dom[e].width # 0 /\ Dom[e].height # 0
  /\ Dom[e].top < page.innerHeight /\ Dom[e].bottom > 0
  /\ Dom[e].visibility # "hidden"

\* C16: a hideOverlayElements call puts the marker class on an element if and
\* only if the element is fixed or sticky, has a box of non-zero width and
\* height with top < viewportHeight and bottom > 0, and is not
\* visibility:hidden; the restore closure takes the marker off exactly the
\* elements that call marked and off no other element.
C16_MarksExactlyVisibleOverlays ==
  [][/\ hideCalls' # hideCalls =>
          \A e \in Elements : (e \in marked' \ marked) <=> IsOverlay(e)
     /\ (pc = "await_segment" /\ pc' # pc) =>
          /\ marked \ marked' = { e \in Elements : IsOverlay(e) }
          /\ marked' \subseteq marked]_vars

\* C16's case: in a viewport two pixels high the call has marked the
\* overlays that reach into the viewport and none of the look-alikes.
C16_Witness ==
  /\ pc = "hide_wait"
  /\ page.innerHeight = 2
  /\ marked = {"header", "toolbar", "straddle", "collapsed"}
  /\ elementsToRestore = marked

(***************************************************************************)
(* Properties of getScrollableElement, over ResolverSpec.                  *)
(***************************************************************************)
Resolved == scrollElement # "none"
Target == ElementById(dom, scrollElement)
\* the elements of a sequence
Members(s) == { s[i] : i \in 1..Len(s) }
\* wider than 40% of the viewport width
WiderThan40Percent(el) == 10 * el.clientWidth > 4 * dom.innerWidth

\* C17: when some scrollable candidate is wider than 40% of the viewport
\* width, the element getScrollableElement returns is wider than 40% of the
\* viewport width, whatever the scores of the narrower candidates.
C17_NarrowNeverBeatsWide ==
  (Resolved /\ \E c \in Members(Candidates(dom)) : WiderThan40Percent(c))
    => WiderThan40Percent(Target)

\* C17's case: a narrow sidebar with the larger scrollable height and score
\* comes first in the document, and the wide container is returned.
C17_Witness ==
  /\ Resolved
  /\ scrollElement = "b"
  /\ Members(Candidates(dom)) = {ElementById(dom, "a"), ElementById(dom, "b")}
  /\ ~WiderThan40Percent(ElementById(dom, "a"))
  /\ WiderThan40Percent(Target)
  /\ Score(ElementById(dom, "a")) > Score(Target)
  /\ ElementById(dom, "a").scrollHeight - ElementById(dom, "a").clientHeight
       > Target.scrollHeight - Target.clientHeight

\* spec.md 4.1: the score of a candidate
ReferenceScore(c) == (c.scrollHeight - c.clientHeight) * c.clientWidth

\* spec.md 4.1: the wide candidates if there are any, otherwise all of them
ReferencePool ==
  IF \E c \in Members(Candidates(dom)) : WiderThan40Percent(c)
    THEN SelectSeq(Candidates(dom), WiderThan40Percent)
    ELSE Candidates(dom)

\* spec.md 4.1: the first-seen candidate of maximum score; the document
\* scroller if there is no candidate
Reference ==
  IF ReferencePool = <<>>
    THEN IF dom.scrollingElement = "null" THEN "html" ELSE dom.scrollingElement
    ELSE LET i == CHOOSE i \in 1..Len(ReferencePool) :
                    /\ \A j \in 1..Len(ReferencePool) :
                         ReferenceScore(ReferencePool[j])
                           <= ReferenceScore(ReferencePool[i])
                    /\ \A j \in 1..(i - 1) :
                         ReferenceScore(ReferencePool[j])
                           < ReferenceScore(ReferencePool[i])
         IN ReferencePool[i].id

\* C18: getScrollableElement returns on every document (it has no failing
\* path), and what it returns is the reference's choice: among the wide
\* candidates if any, otherwise among all, the first-seen candidate of
\* maximum score; the document scroller when there is no candidate.
C18_ResolverEqualsReference ==
  /\ pc = "getScrollableElement" => ENABLED getScrollableElement
  /\ Resolved => scrollElement = Reference

\* C18's case: two wide candidates tie on the maximum score and the one
\* that comes first in the document is returned.
C18_Witness ==
  /\ Resolved
  /\ scrollElement = "a"
  /\ Len(ReferencePool) = 2
  /\ ReferencePool[2].id = "b"
  /\ WiderThan40Percent(ReferencePool[2])
  /\ ReferenceScore(ReferencePool[1]) = ReferenceScore(ReferencePool[2])
  /\ ReferenceScore(ReferencePool[1]) > 0

NoWideCandidate ==
  \A c \in Members(Candidates(dom)) : ~WiderThan40Percent(c)

\* C19 as stated: if no scrollable element is wider than 40% of the viewport
\* width, getScrollableElement returns the document root.
C19_NoWideMeansRoot ==
  (Resolved /\ NoWideCandidate) => IsWindowScrolling(Target)

\* C19 as amended: if no scrollable candidate is wider than 40% of the
\* viewport width, getScrollableElement returns a candidate of maximum score
\* among all the candidates, narrow as they are, and none that comes earlier
\* scores as much; it returns the document scroller only when there is no
\* candidate at all.
C19_NoWideMeansBestNarrow ==
  (Resolved /\ NoWideCandidate) =>
    IF Candidates(dom) = <<>>
      THEN Target = DocScroller(dom)
      ELSE \E i \in 1..Len(Candidates(dom)) :
             /\ Candidates(dom)[i] = Target
             /\ \A j \in 1..Len(Candidates(dom)) :
                  /\ Score(Candidates(dom)[j]) <= Score(Target)
                  /\ j < i => Score(Candidates(dom)[j]) < Score(Target)

\* C19's case: the root does not scroll, two narrow sidebars do, and the
\* second, which scores higher, is returned.
C19_Witness ==
  /\ Resolved
  /\ NoWideCandidate
  /\ Len(Candidates(dom)) = 2
  /\ scrollElement = "b"
  /\ Score(Target) > Score(ElementById(dom, "a"))
  /\ Score(ElementById(dom, "a")) > 0

\* C20: every candidate other than the document scroller has overflow-y
\* scroll or auto, more content than visible height, and is neither hidden
\* nor of zero size; the element returned never has clientHeight = 0 or
\* clientWidth = 0.
C20_CandidatesAreSizedScrollers ==
  Resolved =>
    /\ \A c \in Members(Candidates(dom)) :
         c # DocScroller(dom) =>
           /\ c.overflowY \in {"scroll", "auto"}
           /\ c.scrollHeight > c.clientHeight
           /\ c.display # "none" /\ c.visibility # "hidden"
           /\ c.clientHeight # 0 /\ c.clientWidth # 0
    /\ Target.clientHeight # 0 /\ Target.clientWidth # 0

(***************************************************************************)
(* Properties of the settle pass and of the session's waits and styles,    *)
(* over Spec.                                                              *)
(***************************************************************************)
\* the offsets 0, viewportHeight, ..., (n - 1) * viewportHeight
Walk(n) == [i \in 1..n |-> (i - 1) * viewportHeight]

\* C21: preparePageForCapture has its style in the document from before its
\* first scroll request; its requests are, in this order, the multiples of
\* viewportHeight from 0 on that are below the height it was given, each
\* followed by one settle wait, and then 0 followed by one more wait; when
\* it returns the style is still there, and from then on the style is gone
\* exactly when the cleanup closure has been called.
C21_SettlePassWalksThenResets ==
  /\ pc = "prepare_loop" =>
       /\ \E n \in 0..Len(scrollLog) :
            scrollLog = Walk(n) /\ y = n * viewportHeight
       /\ \A i \in 1..Len(scrollLog) : scrollLog[i] < pageHeight
       /\ idleWaits = Len(scrollLog)
  /\ pc \in {"prepare_wait", "prepare_reset_wait"} =>
       idleWaits = Len(scrollLog) - (IF idle = "resolved" THEN 0 ELSE 1)
  /\ pc = "check_height" =>
       /\ \E n \in 0..Len(scrollLog) :
            /\ scrollLog = Walk(n) \o <<0>>
            /\ \A i \in 1..n : Walk(n)[i] < pageHeight
            /\ n * viewportHeight >= pageHeight
       /\ idleWaits = Len(scrollLog)
  /\ pc \in {"prepare_loop", "prepare_wait", "prepare_reset_wait",
             "check_height"} =>
       (animStyles = 1 /\ cleanupCalls = 0)
  /\ (InScrollingPath /\ scrollLog # <<>>) => animStyles = 1 - cleanupCalls

\* C21's case: a page of height 5 walked in steps of 2 and reset to the top.
C21_Witness ==
  /\ pc = "check_height"
  /\ viewportHeight = 2 /\ pageHeight = 5
  /\ scrollLog = <<0, 2, 4, 0>>
  /\ idleWaits = 4
  /\ animStyles = 1

\* the scroll requests of the capture loop: those after the settle pass's
SettleRequests ==
  1 + (CHOOSE n \in 0..Len(scrollLog) :
         /\ n * viewportHeight >= pageHeight
         /\ \A m \in 0..(n - 1) : m * viewportHeight < pageHeight)
LoopRequests == SubSeq(scrollLog, SettleRequests + 1, Len(scrollLog))

\* C22: the height that decides between the single capture and the capture
\* loop, and that bounds the loop, is the scroll height as it is once
\* settling has finished: the short circuit is taken exactly when that
\* height is at most viewportHeight, and a loop that runs to its bound has
\* requested exactly the multiples of viewportHeight below that height,
\* whatever the height was before settling.
C22_PostSettleHeightDecides ==
  /\ pc \in {"check_height", "await_initial", "capture_loop", "scroll_wait",
             "hide_wait", "await_segment", "stitch"} =>
       finalPageHeight = scrollHeight
  /\ path = "shortCircuit" => finalPageHeight <= viewportHeight
  /\ pc \in {"await_initial", "capture_loop", "scroll_wait", "hide_wait",
             "await_segment", "stitch"} =>
       finalPageHeight > viewportHeight
  /\ pc = "scroll_wait" => y < finalPageHeight
  /\ (pc = "stitch" /\ loopExit = "bound") =>
       /\ y >= finalPageHeight
       /\ LoopRequests = [i \in 1..Len(LoopRequests) |-> i * viewportHeight]
       /\ \A i \in 1..Len(LoopRequests) : LoopRequests[i] < finalPageHeight
       /\ (Len(LoopRequests) + 1) * viewportHeight >= finalPageHeight

\* C22's case: the height was one viewport before settling and grew while
\* settling; the loop ran to its bound on the new height.
C22_Witness ==
  /\ pc = "stitch" /\ loopExit = "bound"
  /\ pageHeight = viewportHeight
  /\ finalPageHeight = pageHeight + 1
  /\ viewportHeight = 2
  /\ LoopRequests = <<2>>

\* a step that reads the scroll geometry: capture.ts 64-66 and 78-82
\* (originalScrollTop, scrollHeight), 85 (scrollHeight), 108-110 and 117-119
\* (scrollY / scrollTop)
ReadsGeometry ==
  \/ pc = "captureScrollingPage" /\ pc' # pc
  \/ pc = "prepare_reset_wait" /\ pc' # pc
  \/ pc = "await_initial" /\ pc' = "capture_loop"
  \/ pc = "scroll_wait" /\ pc' # pc

\* C23: whenever the script reads the scroll geometry or sends a capture
\* request, a settle wait has run to completion since the last scroll
\* request; and a settle wait resolves only from its second animation-frame
\* callback, which is requested only by the first, which is requested only
\* by the timer callback.
C23_SettleWaitAfterEveryScroll ==
  [][/\ (ReadsGeometry \/ captureReqs' # captureReqs) => settled
     /\ (idle' = "resolved" /\ idle # "resolved") => idle = "raf2"
     /\ (idle' = "raf2" /\ idle # "raf2") => idle = "raf1"
     /\ (idle' = "raf1" /\ idle # "raf1") => idle = "timer"]_vars

\* C23's case: the third capture request is out; every scroll request and
\* every overlay pass before it was followed by a complete wait.
C23_Witness ==
  /\ pc = "await_segment"
  /\ captureReqs = 3
  /\ settled
  /\ Len(LoopRequests) = 2
  /\ idleWaits = Len(scrollLog) + hideCalls

\* C24: at most one CAPTURE_VISIBLE_TAB request is outstanding at any time,
\* and while one is outstanding the script makes no scroll request and sends
\* no further request.
C24_OneCaptureInFlightNoScroll ==
  /\ [](inFlight \in {0, 1})
  /\ [][inFlight > 0 =>
          /\ scrollLog' = scrollLog
          /\ scrollTop' = scrollTop
          /\ captureReqs' = captureReqs]_vars

\* C24's case: the second of several segment requests is outstanding at a
\* scrolled position.
C24_Witness ==
  /\ inFlight = 1
  /\ pc = "await_segment"
  /\ captureReqs = 2
  /\ scrollTop > 0
  /\ y + viewportHeight < finalPageHeight

\* C25: at every moment of a session the document holds at most one
\* animation-disable style, at most one scrollbar-hide style and at most one
\* overlay-hide style (so a style is injected only when the one before it of
\* its kind has been removed), and the cleanup closure runs at most once and
\* only on a style that is there.
C25_OneStyleOfEachKind ==
  /\ animStyles \in {0, 1}
  /\ scrollbarStyles \in {0, 1}
  /\ overlayStyles \in {0, 1}
  /\ cleanupCalls \in {0, 1}
  /\ animStyles = 1 => cleanupCalls = 0

\* C25's case: the three styles are in the document together, the overlay
\* style for the second time.
C25_Witness ==
  /\ pc = "await_segment"
  /\ animStyles = 1 /\ scrollbarStyles = 1 /\ overlayStyles = 1
  /\ hideCalls = 2
  /\ captureReqs = 3

\* C26: the scrollbar-hide style is in the document exactly while a capture
\* request is outstanding: it is there during the initial, every later and
\* the single-viewport request, and it is gone once the request has been
\* answered, has failed or has rejected.
C26_ScrollbarsHiddenExactlyDuringCapture ==
  /\ (inFlight > 0) <=> (scrollbarStyles > 0)
  /\ (inFlight > 0) <=> (pc \in {"await_initial", "await_segment", "await_visible"})
  /\ \A i \in 1..Len(captures) : captures[i].scrollbarsHidden
  /\ (completion.kind = "return" /\ completion.data.kind = "capture")
       => completion.data.image.scrollbarsHidden

\* C26's case: the single-viewport request of a session that short-circuited
\* has been rejected and the style is gone.
C26_Witness ==
  /\ path = "shortCircuit"
  /\ pc = "settled"
  /\ failure = [segment |-> 1, outcome |-> "lastError"]
  /\ scrollbarStyles = 0
  /\ inFlight = 0

(***************************************************************************)
(* C27: a capture that produces a final image dispatches it to exactly one *)
(* output action, the one named by settings.defaultAction: copy performs   *)
(* one clipboard write and sends no SCREENSHOT_DATA message; open or       *)
(* download sends exactly one SCREENSHOT_DATA message carrying that        *)
(* action, on which the background performs only that action (open: store  *)
(* the image and create one viewer tab; download: start one download).     *)
(* Read once the run and the background handler have ended, and with the   *)
(* clipboard and chrome calls succeeding.                                  *)
(***************************************************************************)
\* takeScreenshot has returned with an image and the background is done
Delivered ==
  /\ pc = "ended"
  /\ completion.kind = "return"
  /\ outbox = <<>>

\* none of the output action's own calls failed
OutputCallsSucceeded ==
  /\ "copyFailedError" \notin Members(alerts)
  /\ \A i \in 1..Len(handled) : handled[i] = "ok"

C27_ExactlyOneOutputAction ==
  (Delivered /\ OutputCallsSucceeded) =>
     /\ Len(dispatched) = 1
     /\ dispatched[1] = settings.defaultAction
     /\ dispatched[1] = "copy" =>
          /\ clipboardWrites = 1
          /\ handled = <<>>
          /\ screenshotUrl = NoScreenshot /\ viewerTabs = 0 /\ downloads = 0
     /\ dispatched[1] = "open" =>
          /\ handled = <<"ok">>
          /\ screenshotUrl = [kind |-> "url", data |-> completion.data]
          /\ viewerTabs = 1
          /\ clipboardWrites = 0 /\ downloads = 0
     /\ dispatched[1] = "download" =>
          /\ handled = <<"ok">>
          /\ downloads = 1
          /\ clipboardWrites = 0
          /\ screenshotUrl = NoScreenshot /\ viewerTabs = 0

(***************************************************************************)
(* C28: when takeScreenshot fails because the message port closed (the     *)
(* error carries the name WEAVE_PORT_CLOSED) the content script shows no   *)
(* alert; for every other error it shows exactly one alert.                *)
(***************************************************************************)
\* takeScreenshot rejected and the entry point's catch block has run
RunFailed == pc = "ended" /\ completion.kind = "throw"

PortClosed == completion.name = "WEAVE_PORT_CLOSED"

C28_SilentOnlyWhenPortClosed ==
  RunFailed => Len(alerts) = IF PortClosed THEN 0 ELSE 1

\* the tab is navigated away after the first segment was captured
C28_Witness ==
  /\ RunFailed
  /\ PortClosed
  /\ InScrollingPath
  /\ Len(captures) >= 1
  /\ alerts = <<>>

(***************************************************************************)
(* C29: the stitched canvas height is (lastActualOffset + viewportHeight)  *)
(* * scale, lastActualOffset being the actual scroll offset of the last    *)
(* segment that was successfully captured (the orchestrator's variable is  *)
(* updated only after a successful capture), not the last requested offset *)
(* and not the settled scroll height.  The canvas keeps the integer part   *)
(* of the product, scale being firstImage.width / cssWidth.                *)
(***************************************************************************)
\* capture.ts 158 has run: the canvas has its height
CanvasSized == canvas.exists /\ drawIndex >= 1

\* H is the integer part of (offset + viewportHeight) * scale
IsScaledHeight(H, offset) ==
  LET product == (offset + viewportHeight) * ImageWidth
      cssWidth == CssWidthOf(page)
  IN  H * cssWidth <= product /\ product < (H + 1) * cssWidth

C29_CanvasHeightFromLastCapturedOffset ==
  /\ (path = "scrolling" /\ captures # <<>>) => lastScrollTop = Last(Offsets)
  /\ CanvasSized => IsScaledHeight(Len(canvas.rows), Last(Offsets))

\* the loop's last request (the one before the restoring scrollTo) was
\* clamped and the target stops short of its scroll height: neither the
\* requested offset nor the scroll height gives the canvas height
C29_Witness ==
  /\ StitchReturned
  /\ Len(captures) >= 2
  /\ IsScaledHeight(Len(canvas.rows), Last(Offsets))
  /\ Last(Offsets) < scrollLog[Len(scrollLog) - 1]
  /\ ~IsScaledHeight(Len(canvas.rows), finalPageHeight - viewportHeight)

(***************************************************************************)
(* C30: for every GET_SETTINGS or CAPTURE_VISIBLE_TAB message the          *)
(* background listener calls sendResponse exactly once, with the result on *)
(* success or with {error: message} if the handler throws, and it returns  *)
(* true (keeps the port open) for exactly these two message types.         *)
(***************************************************************************)
ExpectsResponse(r) == r.type \in {"GET_SETTINGS", "CAPTURE_VISIBLE_TAB"}

\* the handler run for the message has ended
Finished(r) == r.awaits = 0

C30_ResponseExactlyOnce ==
  \A i \in 1..Len(requests) :
    LET r == requests[i] IN
      /\ r.keepOpen <=> ExpectsResponse(r)
      /\ ExpectsResponse(r) =>
           /\ ~Finished(r) => r.responses = <<>>
           /\ (Finished(r) /\ ~r.threw) =>
                r.responses =
                  <<IF r.type = "GET_SETTINGS" THEN "settings" ELSE "data">>
           /\ (Finished(r) /\ r.threw) => r.responses = <<"error">>

\* a settings request that threw, a capture request that succeeded, and a
\* fire-and-forget message, all handled
C30_Witness ==
  /\ Len(requests) = 3
  /\ \A i \in 1..3 : Finished(requests[i])
  /\ \E i \in 1..3 :
       /\ requests[i].type = "GET_SETTINGS"
       /\ requests[i].threw /\ requests[i].responses = <<"error">>
  /\ \E i \in 1..3 :
       /\ requests[i].type = "CAPTURE_VISIBLE_TAB"
       /\ ~requests[i].threw /\ requests[i].responses = <<"data">>
  /\ \E i \in 1..3 :
       /\ requests[i].type = "SCREENSHOT_DATA"
       /\ ~requests[i].keepOpen

(***************************************************************************)
(* C31: when the settled scroll height is an exact multiple k *            *)
(* viewportHeight (k >= 2) and the environment clamps scrolling at (k-1) * *)
(* viewportHeight, exactly k segments are captured at offsets 0,           *)
(* viewportHeight, ..., (k-1) * viewportHeight and the last segment is     *)
(* drawn in full (sourceY = 0, remainingHeight equal to the segment        *)
(* height), with no row clipped or duplicated.                             *)
(***************************************************************************)
\* the settled height is k viewports and scrolling stops at k - 1 of them
IsExactMultiple(k) ==
  /\ viewportHeight >= 1
  /\ finalPageHeight = k * viewportHeight
  /\ maxScrollTop = (k - 1) * viewportHeight

C31_ExactMultipleDrawnInFull ==
  \A k \in 2..MaxHeight :
    (StitchReturned /\ IsExactMultiple(k)) =>
       /\ Len(captures) = k
       /\ Offsets = [i \in 1..k |-> (i - 1) * viewportHeight]
       /\ Len(drawn) = k
       /\ Last(drawn).sy = 0
       /\ Last(drawn).h = ImageHeight
       /\ canvas.rows = [i \in 1..(k * viewportHeight * page.dpr) |-> i - 1]

(***************************************************************************)
(* C35: whenever the last segment is drawn, its crop rectangle lies        *)
(* entirely inside the source image: 0 <= sourceY and sourceY +            *)
(* remainingHeight <= lastImageHeight, for window scrolling and for        *)
(* inner-element scrolling alike.                                          *)
(***************************************************************************)
\* capture.ts 175-187 has drawn the last segment
LastSegmentDrawn == StitchReturned /\ Len(drawn) = Len(captures)

C35_CropInsideSourceImage ==
  LastSegmentDrawn =>
    /\ 0 <= Last(drawn).sy
    /\ Last(drawn).sy + Last(drawn).h <= ImageHeight

(***************************************************************************)
(* C37: every run of the content script ends in at least one of: an output *)
(* action dispatched with the captured image, an alert shown to the user,  *)
(* or silent termination because the message port closed.  In particular,  *)
(* when the background answers GET_SETTINGS with an error response, the    *)
(* run does not end silently with an image captured but neither delivered  *)
(* nor reported.                                                           *)
(***************************************************************************)
C37_RunEndsDeliveredOrReported ==
  pc = "ended" =>
    \/ dispatched # <<>>
    \/ alerts # <<>>
    \/ completion.kind = "throw" /\ PortClosed

(***************************************************************************)
(* C38: the output action (clipboard write or SCREENSHOT_DATA message) is  *)
(* dispatched only after the capture session's cleanup has completed: at   *)
(* the moment of dispatch the original scroll position has been requested  *)
(* again, no injected style remains and no overlay is hidden.              *)
(***************************************************************************)
\* the switch is about to pick an output action, or has picked one
AtOrAfterDispatch ==
  \/ pc = "settled" /\ completion.kind = "return"
  \/ dispatched # <<>>

C38_DispatchAfterCleanup ==
  AtOrAfterDispatch =>
    /\ NoInjectedStyle
    /\ marked = {}
    /\ InScrollingPath => ScrollRestored

\* a stitched page, with overlays hidden on the way, handed to the clipboard
C38_Witness ==
  /\ dispatched = <<"copy">>
  /\ path = "scrolling"
  /\ StitchReturned
  /\ hideCalls >= 1 /\ Last(captures).hidden # {}
  /\ originalScrollTop = 1

(***************************************************************************)
(* C34: assuming every settle wait and every capture request eventually    *)
(* completes, captureScrollingPage eventually exits for every scroll       *)
(* target with scrollHeight >= 0 and viewportHeight >= 0, a target whose   *)
(* viewportHeight is 0 included; the settle pass issues at most            *)
(* ceil(scrollHeight / viewportHeight) scroll steps and the capture loop   *)
(* at most ceil(finalPageHeight / viewportHeight) capture requests.        *)
(* Termination is read through the loops' variant: every pass of either    *)
(* loop moves y strictly towards the loop's bound.                         *)
(***************************************************************************)
\* ceil(a / b) for b >= 1
CeilDiv(a, b) == (a + b - 1) \div b

\* a pass of the settle loop or of the capture loop ends: y += viewportHeight
LoopPassEnds ==
  \/ pc = "prepare_wait" /\ pc' = "prepare_loop"
  \/ pc = "await_segment" /\ pc' = "capture_loop"

InSettleLoop == pc \in {"prepare_loop", "prepare_wait"}

C34_LoopsAdvanceWithinBounds ==
  /\ [][LoopPassEnds => y' > y]_vars
  /\ []((InSettleLoop /\ viewportHeight >= 1) =>
          Len(scrollLog) <= CeilDiv(pageHeight, viewportHeight))
  /\ []((path = "scrolling" /\ viewportHeight >= 1) =>
          captureReqs <= CeilDiv(finalPageHeight, viewportHeight))

(***************************************************************************)
(* C32: after the viewer has read and displayed a stored screenshot it     *)
(* removes the screenshotUrl key, so a viewer page loaded again without a  *)
(* new 'open' action finds no stored image and displays none: no viewer    *)
(* document gets from storage an image that a viewer was already           *)
(* displaying when the document loaded.                                    *)
(***************************************************************************)
C32_NoStaleImage ==
  \A i \in 1..Len(viewers) :
    /\ viewers[i].got.kind = "url" =>
         viewers[i].got.data \notin viewers[i].displayedBefore
    /\ viewers[i].phase = "shown" =>
         viewers[i].img \notin viewers[i].displayedBefore

\* one image stored and shown, then the viewer loaded again: nothing to show
C32_Witness ==
  /\ Len(handled) = 1
  /\ Len(viewers) = 2
  /\ viewers[1].phase = "shown" /\ viewers[1].img = 1
  /\ viewers[2].displayedBefore = {1}
  /\ viewers[2].phase = "empty"

(***************************************************************************)
(* C33: for any interleaving of concurrent setupOffscreenDocument callers, *)
(* at most one chrome.offscreen.createDocument call is in flight at any    *)
(* time and no caller starts a creation while a document already exists: a *)
(* caller that arrives while a creation is pending awaits that same        *)
(* pending promise instead of starting a duplicate.                        *)
(***************************************************************************)
\* the createDocument calls that have not settled
PendingCreations ==
  { p \in 1..Len(offscreen.promises) : offscreen.promises[p] = "pending" }

C33_NoDuplicateCreation ==
  /\ Cardinality(PendingCreations) <= 1
  /\ offscreen.startedWhileExists = 0
  /\ \A i \in 1..Len(offscreen.callers) :
       offscreen.callers[i].at = "joined" =>
         \/ offscreen.callers[i].promise = offscreen.creatingOffscreenDocument
         \/ offscreen.promises[offscreen.callers[i].promise] # "pending"

(***************************************************************************)
(* C39: after an offscreen-document creation attempt settles, whether      *)
(* createDocument fulfilled or rejected, the in-flight guard               *)
(* creatingOffscreenDocument is null again (once the caller that started   *)
(* the attempt has resumed), so a later setupOffscreenDocument call is not *)
(* stuck awaiting or re-throwing a stale promise and can start a new       *)
(* creation.                                                               *)
(***************************************************************************)
\* the caller that started the creation the guard refers to is still
\* suspended at its await
CreatorSuspended ==
  \E i \in 1..Len(offscreen.callers) :
    /\ offscreen.callers[i].at = "creating"
    /\ offscreen.callers[i].promise = offscreen.creatingOffscreenDocument

C39_GuardResetAfterSettling ==
  (offscreen.creatingOffscreenDocument # 0 /\ ~CreatorSuspended) =>
     offscreen.promises[offscreen.creatingOffscreenDocument] = "pending"

(***************************************************************************)
(* C36: the background injects the content script on every click with no   *)
(* in-flight guard, so two capture sessions can interleave in one page;    *)
(* for every such interleaving, once both sessions have exited the scroll  *)
(* offset equals the offset before the first session started, no injected  *)
(* style remains and no element carries the hide marker class.             *)
(***************************************************************************)
BothSessionsExited == pc = "settled" /\ parked.pc = "settled"

C36_BothSessionsCleanUp ==
  BothSessionsExited =>
    /\ scrollTop = initialScrollTop
    /\ NoInjectedStyle
    /\ marked = {}

====
